---- MODULE Spec2Model ----
(***************************************************************************)
(* X-Ray decision observability pipeline.                                  *)
(*                                                                         *)
(* These specifications share the variables of this module:                *)
(*   SpecBuffer  the EventBuffer driven through its own API                *)
(*               (add, the periodic timer, forceFlush, the dispatch)       *)
(*   SpecSdk     the XRay facade (startRun, step, endRun, flush) on top    *)
(*               of the buffer and the HTTP transport                      *)
(*   SpecWorker  the processor worker polling its queue and writing to the *)
(*               blob store and the analytical store                       *)
(*   SpecTransport  one sendWithRetry call against every endpoint behaviour*)
(*   SpecSampler    shouldSample asked about every index of a batch        *)
(*   SpecCapture    one step() call, its captured events and its messages  *)
(*                  followed through the worker to the metrics rows        *)
(*   SpecIngest     one POST /ingest of every envelope type and its queue  *)
(*   SpecMetrics    calculateStepMetrics and calculateRunMetrics over      *)
(*                  chosen config counts and decision events               *)
(*   SpecLifecycle  the worker's poll loop under start(), stop() and the   *)
(*                  shutdown handlers                                      *)
(*   SpecQuery      the query API's routes with either store failing       *)
(*   SpecBroker     the queue adapters (in-memory, Redis, RabbitMQ), their *)
(*                  broker and the worker's batch processing               *)
(* SpecBufferFair and SpecBrokerFair add the fairness the timers, the event*)
(* loop and the polling loop provide.                                      *)
(***************************************************************************)
EXTENDS Integers, Sequences, FiniteSets, TLC

VARIABLES
    \* ---- sdk-core: EventBuffer
    cfgMaxSize,     \* config.maxSize handed to the constructor
    cfgBatchSize,   \* config.batchSize handed to the constructor
    buffer,         \* EventBuffer.buffer
    flushTimer,     \* EventBuffer.flushTimer is set (TRUE) or null (FALSE)
    isFlushing,     \* EventBuffer.isFlushing
    dispatches,     \* flushCallback invocations awaiting settlement
    handed,         \* ids of the events given to flushCallback so far
    dropped,        \* ids of the events removed by buffer.shift()
    nextId,         \* next fresh id (uuidv4 stand-in)
    ff,             \* the forceFlush()/flush() call of the application
    lastSettle,     \* how the last flushCallback settled and what flush() did
    \* ---- sdk-core: XRay facade and HttpTransport
    captureLevel,   \* XRay.captureLevel
    now,            \* the clock read by new Date()
    activeRuns,     \* XRay.activeRuns
    activeSteps,    \* XRay.activeSteps: steps awaiting businessLogic
    sent,           \* messages handed to the transport (as serialised)
    raisedBy,       \* startRun / endRun / flush calls that raised
    lastCall,       \* what the last finished step() call gave its caller
    sendPattern,    \* what the endpoint did to each attempt of the last send
    lastSend,       \* how the last sendWithRetry call ended
    endRunCalls,    \* number of endRun calls made so far, by runId
    \* ---- processor-worker, its queue and its stores
    enqueued,       \* every message given to InMemoryQueue.add, by messageId
    queue,          \* InMemoryQueue.messages
    processedIds,   \* InMemoryQueue.processedIds
    batch,          \* messages of the batch processBatch is working on
    failedIds,      \* messageIds whose processing raised
    storeUp,        \* which store answers: "up", "s3down" or "chdown"
    runCache,       \* ProcessorWorker.runCache
    stepCache,      \* ProcessorWorker.stepCache
    stepDecisionEvents, \* ProcessorWorker.stepDecisionEvents
    blobs,          \* objects of the blob store, by key
    eventRows,      \* decision_events as SELECT ... FINAL shows it, by key
    stepRows,       \* steps as SELECT ... FINAL shows it, by key
    runRows,        \* runs as SELECT ... FINAL shows it, by key
    \* ---- the sampler and the decision derivation applied to chosen inputs
    sampleN,        \* totalCount of the walk over shouldSample
    sampleK,        \* targetSampleSize of the walk
    sampleIndex,    \* next itemIndex the walk asks about
    picked,         \* the itemIndexes shouldSample answered true for
    capIn,          \* the step() call whose capture is followed to the stores
    emitted,        \* the events that call passed to buffer.add, in order
    delivered,      \* which of its messages the worker has processed
    \* ---- ingestion-api: POST /ingest and its queue
    ingested,       \* what the queue client has pushed, in order
    lastRequest,    \* the last POST /ingest body and what the queue did with it
    lastResponse,   \* the HTTP answer to it
    \* ---- ClickHouseStorage.calculateStepMetrics / calculateRunMetrics applied to chosen inputs
    metricsIn,      \* the step config and the decision events the metrics are computed from
    metricsOut,     \* the step row and the run row computed from them
    \* ---- processor-worker: ProcessorWorker.start/stop/pollLoop and the shutdown handlers
    isRunning,      \* ProcessorWorker.isRunning
    pollTimer,      \* ProcessorWorker.pollTimer: the last timer set, 0 for null
    timers,         \* the timers that are set and have neither fired nor been cleared
    timerSeq,       \* timers set so far
    inFlight,       \* processBatch() calls that have not settled
    polls,          \* processBatch() calls so far
    lifeCalls,      \* start() and stop() calls so far
    shutdown,       \* where the SIGTERM/SIGINT handler is, and what it found in flight
    \* ---- query-api: GET /runs, GET /runs/:id, GET /steps/:id/details
    queryStore,     \* what the analytical store and the blob store hold for the queries
    lastQuery,      \* the last request and which of its store calls failed
    queryResponse,  \* the HTTP answer to it
    \* ---- processor-worker and ingestion-api: the queue adapters and their broker
    adapter,        \* which service the adapter belongs to and which queue it talks to
    amqp,           \* RabbitMQQueue.connection, channel (0 for null) and isConnecting
    connecting,     \* who awaits the connect() call in flight, none when there is none
    brokerNet,            \* the broker: reachable or not, its open connections, handler events due
    published,      \* messageId of every message published, in order
    ready,          \* the published messages the broker holds ready for delivery
    unacked,        \* the messages delivered on a connection and not acknowledged
    workBatch,      \* the messages of the poll being processed
    execs,          \* how often processMessage has run to its end for each published message
    queueProcessed, \* InMemoryQueue.processedIds
    lastOp          \* what the last poll or push returned

bufVars == <<cfgMaxSize, cfgBatchSize, buffer, flushTimer, isFlushing, dispatches, handed,
             dropped, nextId, ff, lastSettle>>
sdkVars == <<captureLevel, now, activeRuns, activeSteps, sent, raisedBy, lastCall,
             sendPattern, lastSend, endRunCalls>>
workerVars == <<enqueued, queue, processedIds, batch, failedIds, storeUp,
                runCache,
                stepCache, stepDecisionEvents, blobs, eventRows, stepRows, runRows>>
samplerVars == <<sampleN, sampleK, sampleIndex, picked>>
captureVars == <<capIn, emitted, delivered>>
ingestVars == <<ingested, lastRequest, lastResponse>>
metricsVars == <<metricsIn, metricsOut>>
lifeVars == <<isRunning, pollTimer, timers, timerSeq, inFlight, polls, lifeCalls, shutdown>>
queryVars == <<queryStore, lastQuery, queryResponse>>
brokerVars == <<adapter, amqp, connecting, brokerNet, published, ready, unacked, workBatch, execs, queueProcessed, lastOp>>
fnVars == <<samplerVars, captureVars, ingestVars, metricsVars, lifeVars, queryVars, brokerVars>>
\* what the sampler walk, the followed capture and the ingestion leave alone
besideSampler == <<captureVars, ingestVars, metricsVars, lifeVars, queryVars, brokerVars>>
besideCapture == <<samplerVars, ingestVars, metricsVars, lifeVars, queryVars, brokerVars>>
besideIngest == <<samplerVars, captureVars, metricsVars, lifeVars, queryVars, brokerVars>>
besideMetrics == <<samplerVars, captureVars, ingestVars, lifeVars, queryVars, brokerVars>>
besideLife == <<samplerVars, captureVars, ingestVars, metricsVars, queryVars, brokerVars>>
besideQuery == <<samplerVars, captureVars, ingestVars, metricsVars, lifeVars, brokerVars>>
besideBroker == <<samplerVars, captureVars, ingestVars, metricsVars, lifeVars, queryVars>>
vars == <<bufVars, sdkVars, workerVars, fnVars>>

\* ------------------------------------------------------------------ bounds

\* DEFAULT_CONFIG.maxSize is 1000 and DEFAULT_CONFIG.batchSize is 100 in the
\* source; the model keeps their order (batchSize < maxSize) at a size TLC
\* can enumerate.
DefaultMaxSize == 3
DefaultBatchSize == 2
\* largest maxSize an application configures
MaxCfgSize == 4
\* largest batchSize an application configures
MaxCfgBatch == 3
\* events created through EventBuffer.add in SpecBuffer
MaxEvents == 6

Range(s) == {s[i] : i \in 1..Len(s)}

\* ------------------------------------------------------------ EventBuffer

NoCall == [state |-> "none", before |-> {}, pending |-> {}]

\* The part of the buffer's state its methods read and write.
BufState == [buffer |-> buffer, isFlushing |-> isFlushing,
             dispatches |-> dispatches, handed |-> handed, dropped |-> dropped]

\* flush(): the guard of the early return
FlushSkipsUnlocked(bs) == Len(bs.buffer) = 0
FlushSkips(bs) == bs.isFlushing \/ Len(bs.buffer) = 0

\* flush() up to its await: take the whole buffer and call flushCallback
Flush(bs, by) ==
    IF FlushSkips(bs) THEN bs
    ELSE [bs EXCEPT !.isFlushing = TRUE,
                    !.dispatches = @ \cup {[batch |-> bs.buffer, by |-> by]},
                    !.buffer = <<>>,
                    !.handed = @ \cup {e.id : e \in Range(bs.buffer)}]

\* add(): the limit the drop-oldest test compares against is
\* DEFAULT_CONFIG.maxSize, whatever maxSize the constructor was given
AddLimit(cfg) == DefaultMaxSize

\* add(): the size that triggers a flush is DEFAULT_CONFIG.batchSize,
\* whatever batchSize the constructor was given
BatchLimit(cfg) == DefaultBatchSize

\* add(event)
BufAdd(bs, e, cfg) ==
    LET full == Len(bs.buffer) >= AddLimit(cfg)
        b1 == IF full THEN Tail(bs.buffer) ELSE bs.buffer
        d1 == IF full THEN bs.dropped \cup {Head(bs.buffer).id} ELSE bs.dropped
        s1 == [bs EXCEPT !.buffer = Append(b1, e), !.dropped = d1]
    IN IF Len(s1.buffer) >= BatchLimit(cfgBatchSize) THEN Flush(s1, "add") ELSE s1

SetBuf(bs) ==
    /\ buffer' = bs.buffer
    /\ isFlushing' = bs.isFlushing
    /\ dispatches' = bs.dispatches
    /\ handed' = bs.handed
    /\ dropped' = bs.dropped

\* An event as the buffer holds it (XRDecisionEvent, the fields the pipeline reads)
MkEvent(id, stepId, runId, outcome, itemId, inputCount, outputCount, sampled, ts) ==
    [id |-> id, stepId |-> stepId, runId |-> runId, outcome |-> outcome,
     itemId |-> itemId, inputCount |-> inputCount, outputCount |-> outputCount,
     sampled |-> sampled, timestamp |-> ts]

PlainEvent(id) == MkEvent(id, "s0", "r0", "kept", id, 1, 1, FALSE, 0)

\* setInterval callback of startPeriodicFlush
TimerFire ==
    /\ flushTimer
    /\ SetBuf(Flush(BufState, "timer"))
    /\ UNCHANGED <<cfgMaxSize, cfgBatchSize, flushTimer, nextId, ff, lastSettle>>

\* forceFlush(): clearInterval, then await this.flush()
ForceFlushCall ==
    /\ ff.state # "awaiting"
    /\ flushTimer' = FALSE
    /\ LET bs == Flush(BufState, "force")
           before == {e.id : e \in Range(buffer)} \cup handed \cup dropped
       IN /\ SetBuf(bs)
          /\ ff' = [state |-> IF FlushSkips(BufState) THEN "resolved" ELSE "awaiting",
                    before |-> before,
                    pending |-> {d.batch : d \in bs.dispatches}]
    /\ UNCHANGED <<cfgMaxSize, cfgBatchSize, nextId, lastSettle>>

\* flush(): try { await flushCallback } catch { warn } finally { ... }
CaughtNot(promise) == promise
Caught(promise) == IF promise = "rejected" THEN "handled" ELSE "handled"

\* what an async call gives its caller once the promise it awaits, or the
\* send it detached, has been dealt with
CallOutcome(detached) == IF detached = "handled" THEN "ok" ELSE "raised"

\* the flushCallback promise settles; flush() runs its catch and finally
FlushSettles(d, result) ==
    /\ d \in dispatches
    /\ result \in {"resolved", "rejected"}
    /\ dispatches' = dispatches \ {d}
    /\ isFlushing' = FALSE
    /\ lastSettle' = [callback |-> result, flush |-> CallOutcome(Caught(result))]
    /\ ff' = IF d.by = "force" /\ ff.state = "awaiting"
             THEN [ff EXCEPT !.state = "resolved"] ELSE ff
    /\ UNCHANGED <<cfgMaxSize, cfgBatchSize, buffer, flushTimer, handed, dropped, nextId>>

\* ---- SpecBuffer: the buffer under an arbitrary caller and callback

Add ==
    /\ nextId <= MaxEvents
    /\ SetBuf(BufAdd(BufState, PlainEvent(nextId), cfgMaxSize))
    /\ nextId' = nextId + 1
    /\ UNCHANGED <<cfgMaxSize, cfgBatchSize, flushTimer, ff, lastSettle>>

TimerFlush == TimerFire /\ UNCHANGED <<sdkVars, workerVars, fnVars>>

ForceFlush == ForceFlushCall /\ UNCHANGED <<sdkVars, workerVars, fnVars>>

CallbackSettles ==
    \E d \in dispatches, r \in {"resolved", "rejected"} :
        FlushSettles(d, r) /\ UNCHANGED <<sdkVars, workerVars, fnVars>>

BufferAdd == Add /\ UNCHANGED <<sdkVars, workerVars, fnVars>>

InitBuf ==
    /\ cfgMaxSize \in 1..MaxCfgSize
    /\ cfgBatchSize \in 1..MaxCfgBatch
    /\ buffer = <<>>
    /\ flushTimer = TRUE
    /\ isFlushing = FALSE
    /\ dispatches = {}
    /\ handed = {}
    /\ dropped = {}
    /\ nextId = 1
    /\ ff = NoCall
    /\ lastSettle = [callback |-> "none", flush |-> "none"]

SdkIdle ==
    /\ captureLevel = "full"
    /\ now = 0
    /\ activeRuns = {}
    /\ activeSteps = {}
    /\ sent = {}
    /\ raisedBy = {}
    /\ lastCall = [op |-> "none"]
    /\ endRunCalls = <<>>
    /\ sendPattern = <<>>
    /\ lastSend = [threw |-> FALSE, attempts |-> 0]

\* new Map()
EmptyMap == [k \in {} |-> 0]

\* map.set(k, v); an insert into a ReplacingMergeTree table read with FINAL
MapSet(map, k, v) == [x \in DOMAIN map \cup {k} |-> IF x = k THEN v ELSE map[x]]

WorkerIdle ==
    /\ enqueued = <<>>
    /\ queue = <<>>
    /\ processedIds = {}
    /\ batch = <<>>
    /\ failedIds = {}
    /\ storeUp = "up"
    /\ runCache = EmptyMap
    /\ stepCache = EmptyMap
    /\ stepDecisionEvents = EmptyMap
    /\ blobs = EmptyMap
    /\ eventRows = EmptyMap
    /\ stepRows = EmptyMap
    /\ runRows = EmptyMap

\* no request has reached the ingestion API
IngestIdle ==
    /\ ingested = <<>>
    /\ lastRequest = [type |-> "none"]
    /\ lastResponse = [status |-> 0]

\* no metrics have been calculated
MetricsIdle ==
    /\ metricsIn = [steps |-> 0]
    /\ metricsOut = [done |-> FALSE]

\* new ProcessorWorker(...): not running, no timer, nothing in flight
LifeIdle ==
    /\ isRunning = FALSE
    /\ pollTimer = 0
    /\ timers = {}
    /\ timerSeq = 0
    /\ inFlight = 0
    /\ polls = 0
    /\ lifeCalls = 0
    /\ shutdown = [phase |-> "none"]

\* no request has reached the query API
QueryIdle ==
    /\ queryStore = [runs |-> {}, steps |-> {}, events |-> {}, blobs |-> {}]
    /\ lastQuery = [route |-> "none"]
    /\ queryResponse = [status |-> 0]

\* no queue adapter has been constructed
BrokerIdle ==
    /\ adapter = [side |-> "none", kind |-> "none"]
    /\ amqp = [connection |-> 0, channel |-> 0, isConnecting |-> FALSE]
    /\ connecting = "none"
    /\ brokerNet = [up |-> TRUE, open |-> {}, due |-> {}, losses |-> 0]
    /\ published = <<>>
    /\ ready = <<>>
    /\ unacked = {}
    /\ workBatch = <<>>
    /\ execs = <<>>
    /\ queueProcessed = {}
    /\ lastOp = "none"

\* no sampler walk, no followed capture, no ingestion
FnIdle ==
    /\ sampleN = 0
    /\ sampleK = 0
    /\ sampleIndex = 0
    /\ picked = {}
    /\ capIn = [level |-> "none"]
    /\ emitted = <<>>
    /\ delivered = {}
    /\ IngestIdle
    /\ MetricsIdle
    /\ LifeIdle
    /\ QueryIdle
    /\ BrokerIdle

InitBuffer == InitBuf /\ SdkIdle /\ WorkerIdle /\ FnIdle

NextBuffer == BufferAdd \/ TimerFlush \/ ForceFlush \/ CallbackSettles

SpecBuffer == InitBuffer /\ [][NextBuffer]_vars

\* the same with the scheduling the runtime guarantees: an interval timer
\* that is set keeps firing, and a flushCallback promise settles
SpecBufferFair ==
    SpecBuffer /\ WF_vars(TimerFlush) /\ WF_vars(CallbackSettles)

\* ------------------------------------------------------------ HttpTransport

\* DEFAULT_CONFIG.maxRetries
MaxRetries == 3

\* what one fetch attempt can do: a 2xx answer, a network error (unreachable,
\* DNS, reset), a non-2xx answer, or the abort of the per-attempt timeout
AttemptOutcomes == {"ok", "neterr", "non2xx", "abort"}

\* a failure behaviour of the endpoint: the outcome of each attempt of a send
NetBehaviours == [1..(MaxRetries + 1) -> AttemptOutcomes]

RECURSIVE SendAttempt(_, _)
\* the for loop of sendWithRetry, from attempt number `attempt`
SendAttempt(beh, attempt) ==
    IF attempt > MaxRetries THEN [threw |-> TRUE, attempts |-> attempt]
    ELSE IF beh[attempt + 1] = "ok" THEN [threw |-> FALSE, attempts |-> attempt + 1]
    ELSE IF beh[attempt + 1] = "abort" \/ attempt >= MaxRetries
         THEN [threw |-> TRUE, attempts |-> attempt + 1]
    ELSE SendAttempt(beh, attempt + 1)

SendWithRetry(beh) == SendAttempt(beh, 0)

\* sendRun / sendStep: try { await sendWithRetry } catch { silent }
SendSilently(beh) ==
    IF SendWithRetry(beh).threw THEN "resolved" ELSE "resolved"

\* sendDecisionEvents: nothing to send, or as above
SendDecisionEvents(events, beh) ==
    IF Len(events) = 0 THEN "resolved" ELSE SendSilently(beh)

\* ---- SpecTransport: one send against every failure behaviour

\* sendWithRetry(endpoint, data) runs against an endpoint behaving as beh
Send ==
    \E beh \in NetBehaviours :
        /\ sendPattern' = beh
        /\ lastSend' = SendWithRetry(beh)
        /\ UNCHANGED <<bufVars, captureLevel, now, activeRuns, activeSteps, sent,
                       raisedBy, lastCall, endRunCalls, workerVars, fnVars>>

InitTransport == InitBuf /\ cfgMaxSize = DefaultMaxSize
                 /\ cfgBatchSize = DefaultBatchSize /\ SdkIdle /\ WorkerIdle
                 /\ FnIdle

NextTransport == Send

SpecTransport == InitTransport /\ [][NextTransport]_vars

\* ------------------------------------------------------------ AdaptiveSampler

\* floor(10^(m/10)) for m = 30..40: ceil(10 * log10 n) is the least m with
\* n <= 10^(m/10)
TenthPowers == <<1000, 1258, 1584, 1995, 2511, 3162, 3981, 5011, 6309, 7943, 10000>>

CeilTenLog10(n) ==
    IF \E j \in 1..Len(TenthPowers) : n <= TenthPowers[j]
    THEN 29 + (CHOOSE j \in 1..Len(TenthPowers) :
                  /\ n <= TenthPowers[j]
                  /\ \A h \in 1..(j - 1) : n > TenthPowers[h])
    ELSE 100

Min(a, b) == IF a <= b THEN a ELSE b

\* calculateTargetSampleSize
TargetSize(n) ==
    IF n <= 5 THEN n
    ELSE IF n <= 1000 THEN 5
    ELSE Min(CeilTenLog10(n), 100)

\* shouldSample(itemIndex, totalCount, targetSampleSize); the last test is
\* i/n < ((k-2)/(n-2)) * ((k-2)/(n-2)) * n, cleared of its denominators
ShouldSampleInterior(i, n, k) ==
    IF n <= k THEN TRUE
    ELSE i * (n - 2) * (n - 2) < (k - 2) * (k - 2) * n * n
ShouldSample(i, n, k) ==
    IF i = 0 \/ i = n - 1 THEN TRUE
    ELSE IF n <= k THEN TRUE
    ELSE i * (n - 2) * (n - 2) < (k - 2) * (k - 2) * n * n

\* ------------------------------------------------------------ XRay facade

\* completedAt: null
NullTime == -1
\* itemId 'single-item' of the non-array branch
SingleItem == 0

\* runs, steps, items per step input and clock readings the application makes
MaxRuns == 1
MaxSteps == 1
MaxItems == 2
MaxClock == 1
\* endRun calls the application makes per runId
MaxEndCalls == 2

StepTypes == {"filter", "rank"}
CaptureLevels == {"metrics_only", "sampled", "full"}
\* the decisionCallback argument: absent, returns null, returns a decision
CallbackModes == {"none", "skip", "decide"}

\* the failure behaviours the facade is run against: reachable, unreachable,
\* answering non-2xx, timing out, and failing once before it answers
Always(o) == [i \in 1..(MaxRetries + 1) |-> o]
SdkNetBehaviours ==
    {Always("ok"), Always("neterr"), Always("non2xx"), Always("abort"),
     [i \in 1..(MaxRetries + 1) |-> IF i = 1 THEN "non2xx" ELSE "ok"]}

\* a send the facade does not await: promise.catch(() => {})
Detached(promise) == IF promise = "rejected" THEN "handled" ELSE "handled"

Raised(op, outcome) == IF outcome = "ok" THEN raisedBy ELSE raisedBy \cup {op}

RunMsg(run) == [type |-> "run", data |-> run]
StepMsg(step) == [type |-> "step", data |-> step]

RunsStarted == {m.data.id : m \in {x \in sent : x.type = "run"}}
StepsBegun == {m.data.id : m \in {x \in sent : x.type = "step"}}

\* what the application passes as input, and what businessLogic can do with it
StepInputs == {[array |-> TRUE, n |-> k] : k \in 0..MaxItems}
                  \cup {[array |-> FALSE, n |-> 1]}
FnResults(input) ==
    {[kind |-> "raise", err |-> "fnError"]}
    \cup {[kind |-> "return", array |-> TRUE, out |-> o, extra |-> x] :
            o \in SUBSET (1..(IF input.array THEN input.n ELSE 0)), x \in 0..1}
    \cup {[kind |-> "return", array |-> FALSE, out |-> o, extra |-> 0] :
            o \in {{}, {1}}}

\* automatic decision detection for one input item
AutoOutcome(type, present) ==
    IF present THEN (IF type \in {"rank", "score"} THEN "scored" ELSE "kept")
    ELSE "eliminated"

\* an element of a step's input or output: ref tells two objects (or two
\* primitive values) apart, id is the first truthy of its id, itemId and key
\* fields (0 when it has none), primitive whether it is not an object
ItemKinds == {"keyed", "plain", "primitive"}
Item(kind, ref) ==
    [ref |-> ref, id |-> IF kind = "keyed" THEN ref ELSE 0,
     primitive |-> kind = "primitive"]

\* item.id || item.itemId || item.key || `item-${index}` (index is 0-based)
KeyOf(item, index) == IF item.id # 0 THEN <<"id", item.id>> ELSE <<"item", index>>

\* the keys of outputMap: output.forEach enters the elements that are objects
OutputKeys(output) ==
    {KeyOf(output[j], j - 1) : j \in {x \in 1..Len(output) : ~output[x].primitive}}

\* whether captureStepMetrics finds an outputItem for input[i] (1-based i):
\* object elements by their key in outputMap, else by reference equality;
\* primitive elements by output.includes
OutputItemFound(input, i, output) ==
    IF input[i].primitive
    THEN \E j \in 1..Len(output) : output[j].primitive /\ output[j].ref = input[i].ref
    ELSE \/ KeyOf(input[i], i - 1) \in OutputKeys(output)
         \/ \E j \in 1..Len(output) : ~output[j].primitive /\ output[j].ref = input[i].ref

\* the input indexes (1-based) for which an outputItem is found
Matched(input, output) == {i \in 1..Len(input) : OutputItemFound(input, i, output)}

RECURSIVE CaptureItems(_, _, _)
\* input.forEach of captureStepMetrics from item i on (1-based; the code's
\* inputIndex is i - 1): the events it passes to buffer.add, in order
CaptureItems(c, i, next) ==
    IF i > c.n THEN [events |-> <<>>, next |-> next, raised |-> FALSE]
    ELSE IF c.cb # "none" /\ c.cbRaiseAt = i
         THEN [events |-> <<>>, next |-> next, raised |-> TRUE]
    ELSE IF c.cb = "skip" THEN CaptureItems(c, i + 1, next)
    ELSE LET outcome == IF c.cb = "decide" THEN "scored"
                        ELSE AutoOutcome(c.type, i \in c.out)
             sampling == c.level = "sampled"
             capture == ~sampling \/ ShouldSample(i - 1, c.n, TargetSize(c.n))
             ev == MkEvent(next, c.stepId, c.runId, outcome, i, c.n, c.outputCount,
                           sampling /\ i - 1 > 0 /\ i - 1 < c.n - 1, c.ts)
             rest == CaptureItems(c, i + 1, IF capture THEN next + 1 ELSE next)
         IN IF capture THEN [rest EXCEPT !.events = <<ev>> \o @] ELSE rest

\* the events captureStepMetrics passes to buffer.add
Captured(c, next) ==
    IF c.level = "metrics_only" THEN [events |-> <<>>, next |-> next, raised |-> FALSE]
    ELSE IF c.inArray /\ c.outArray THEN CaptureItems(c, 1, next)
    ELSE [events |-> <<MkEvent(next, c.stepId, c.runId,
                               IF c.out # {} THEN "kept" ELSE "eliminated",
                               SingleItem, c.inputCount, c.outputCount, FALSE, c.ts)>>,
          next |-> next + 1, raised |-> FALSE]

RECURSIVE AddAll(_, _, _)
\* this.buffer.add(event) for each captured event in turn
AddAll(bs, events, cfg) ==
    IF events = <<>> THEN bs
    ELSE AddAll(BufAdd(bs, Head(events), cfg), Tail(events), cfg)

\* captureStepMetrics
CaptureStepMetrics(c, bs, next) ==
    LET r == Captured(c, next)
    IN [bs |-> AddAll(bs, r.events, c.cfg), next |-> r.next, raised |-> r.raised]

\* the catch block of step(): step.completedAt = new Date()
StepFailedUnstamped(step, t) == step
StepFailed(step, t) == [step EXCEPT !.completedAt = t]

\* what step() gives its caller: fnOut is what businessLogic did, cbRaised
\* whether the decisionCallback raised, net what the transport's send of the
\* final Step does
StepOutcome(fnOut, cbRaised, net) ==
    IF fnOut.kind = "raise" THEN [result |-> "raised", value |-> fnOut.err]
    ELSE IF cbRaised THEN [result |-> "raised", value |-> "callbackError"]
    ELSE [result |-> "ok", value |-> fnOut]

\* startRun(pipelineId, input, metadata)
StartRun ==
    \E beh \in SdkNetBehaviours :
        /\ Cardinality(RunsStarted) < MaxRuns
        /\ LET run == [id |-> Cardinality(RunsStarted) + 1, pipelineId |-> "p1",
                       status |-> "running", startedAt |-> now,
                       completedAt |-> NullTime, error |-> "null"]
           IN /\ activeRuns' = activeRuns \cup {run}
              /\ sent' = sent \cup {RunMsg(run)}
        /\ raisedBy' = Raised("startRun", CallOutcome(Detached(SendSilently(beh))))
        /\ UNCHANGED <<bufVars, captureLevel, now, activeSteps, lastCall, sendPattern,
                       lastSend, endRunCalls, workerVars, fnVars>>

\* endRun calls made so far for runId
CallsOf(runId) == IF runId \in DOMAIN endRunCalls THEN endRunCalls[runId] ELSE 0

\* this.activeRuns.delete(runId)
RunsAfterEndKept(run) == activeRuns
RunsAfterEnd(run) == activeRuns \ {run}

\* endRun(runId, output, error), for a runId startRun returned or for one it
\* never returned
EndRun ==
    \E runId \in RunsStarted \cup {MaxRuns + 1}, failed \in BOOLEAN,
       beh \in SdkNetBehaviours :
        /\ CallsOf(runId) < MaxEndCalls
        /\ endRunCalls' = MapSet(endRunCalls, runId, CallsOf(runId) + 1)
        /\ raisedBy' = Raised("endRun", CallOutcome(Detached(SendSilently(beh))))
        /\ IF \E r \in activeRuns : r.id = runId
           THEN LET run == CHOOSE r \in activeRuns : r.id = runId
                    done == [run EXCEPT
                                !.status = IF failed THEN "failed" ELSE "completed",
                                !.completedAt = now,
                                !.error = IF failed THEN "message" ELSE "null"]
                IN /\ sent' = sent \cup {RunMsg(done)}
                   /\ activeRuns' = RunsAfterEnd(run)
           ELSE UNCHANGED <<sent, activeRuns>>
        /\ UNCHANGED <<bufVars, captureLevel, now, activeSteps, lastCall, sendPattern,
                       lastSend, workerVars, fnVars>>

\* step(...) up to its await of businessLogic(input)
StepBegin ==
    \E runId \in 1..MaxRuns, type \in StepTypes, input \in StepInputs,
       cb \in CallbackModes :
        /\ Cardinality(StepsBegun) < MaxSteps
        /\ LET step == [id |-> Cardinality(StepsBegun) + 1, type |-> type,
                        startedAt |-> now, completedAt |-> NullTime]
           IN /\ activeSteps' = activeSteps \cup
                    {[step |-> step, runId |-> runId, input |-> input, cb |-> cb]}
              /\ sent' = sent \cup {StepMsg(step)}
        /\ UNCHANGED <<bufVars, captureLevel, now, activeRuns, raisedBy, lastCall,
                       sendPattern, lastSend, endRunCalls,
                       workerVars, fnVars>>

\* businessLogic settles and step() runs to its end
StepSettle ==
    \E a \in activeSteps, beh \in SdkNetBehaviours :
      \E fnOut \in FnResults(a.input), cbRaiseAt \in 0..a.input.n :
        LET c == [runId |-> a.runId, stepId |-> a.step.id, type |-> a.step.type,
                  inArray |-> a.input.array, n |-> a.input.n,
                  inputCount |-> IF a.input.array THEN a.input.n ELSE 1,
                  outArray |-> fnOut.kind = "return" /\ fnOut.array,
                  out |-> IF fnOut.kind = "return" THEN fnOut.out ELSE {},
                  outputCount |-> IF fnOut.kind = "return" /\ fnOut.array
                                  THEN Cardinality(fnOut.out) + fnOut.extra ELSE 1,
                  cb |-> a.cb, cbRaiseAt |-> cbRaiseAt, level |-> captureLevel,
                  cfg |-> cfgMaxSize, ts |-> now]
            cap == IF fnOut.kind = "return"
                   THEN CaptureStepMetrics(c, BufState, nextId)
                   ELSE [bs |-> BufState, next |-> nextId, raised |-> FALSE]
            final == IF fnOut.kind = "return" /\ ~cap.raised
                     THEN [a.step EXCEPT !.completedAt = now]
                     ELSE StepFailed(a.step, now)
            res == StepOutcome(fnOut, cap.raised, SendWithRetry(beh))
        IN /\ SetBuf(cap.bs)
           /\ nextId' = cap.next
           /\ sent' = sent \cup {StepMsg(final)}
           /\ activeSteps' = activeSteps \ {a}
           /\ lastCall' = [op |-> "step", result |-> res.result, value |-> res.value,
                           fn |-> fnOut, cbRaised |-> cap.raised, step |-> final]
           /\ UNCHANGED <<cfgMaxSize, cfgBatchSize, flushTimer, ff, lastSettle,
                          captureLevel, now, sendPattern, lastSend, endRunCalls,
                          activeRuns,
                          raisedBy, workerVars, fnVars>>

\* flush(): await this.buffer.forceFlush()
FacadeFlush ==
    /\ ForceFlushCall
    /\ UNCHANGED <<sdkVars, workerVars, fnVars>>

\* the periodic timer of the facade's buffer
SdkTimer == TimerFire /\ UNCHANGED <<sdkVars, workerVars, fnVars>>

\* transport.sendDecisionEvents(events) settles for a dispatched batch
DispatchSettles ==
    \E d \in dispatches, beh \in SdkNetBehaviours :
        /\ FlushSettles(d, SendDecisionEvents(d.batch, beh))
        /\ raisedBy' = IF ff'.state = "resolved" /\ ff.state = "awaiting"
                       THEN Raised("flush", CallOutcome(Caught(SendDecisionEvents(d.batch, beh))))
                       ELSE raisedBy
        /\ UNCHANGED <<captureLevel, now, activeRuns, activeSteps, sent, lastCall,
                       sendPattern, lastSend, endRunCalls,
                       workerVars, fnVars>>

\* time passes
Tick ==
    /\ now < MaxClock
    /\ now' = now + 1
    /\ UNCHANGED <<bufVars, captureLevel, activeRuns, activeSteps, sent, raisedBy,
                   sendPattern, lastSend, endRunCalls,
                   lastCall, workerVars, fnVars>>

InitSdk ==
    /\ InitBuf
    /\ cfgMaxSize = MaxCfgSize
    /\ cfgBatchSize = DefaultBatchSize
    /\ captureLevel \in CaptureLevels
    /\ now = 0
    /\ activeRuns = {}
    /\ activeSteps = {}
    /\ sent = {}
    /\ raisedBy = {}
    /\ lastCall = [op |-> "none"]
    /\ endRunCalls = <<>>
    /\ sendPattern = <<>>
    /\ lastSend = [threw |-> FALSE, attempts |-> 0]
    /\ WorkerIdle
    /\ FnIdle

NextSdk ==
    \/ StartRun
    \/ EndRun
    \/ StepBegin
    \/ StepSettle
    \/ FacadeFlush
    \/ SdkTimer
    \/ DispatchSettles
    \/ Tick

SpecSdk == InitSdk /\ [][NextSdk]_vars

\* ------------------------------------------------------ processor-worker

\* messages given to the queue, decision events of the step, messages per
\* poll (DEFAULT_CONFIG.batchSize is 10 in the source), clock ticks per day
MaxMessages == 4
MaxStepEvents == 2
WorkerBatchSize == 2
TicksPerDay == 2

StoreStates == {"up", "s3down", "chdown"}
Outcomes == <<"kept", "eliminated", "scored">>

\* the messages of one pipeline run as the SDK and other producers send them
RunStartedMsg ==
    [type |-> "run",
     data |-> [id |-> "r1", pipelineId |-> "p1", status |-> "running",
               startedAt |-> 0, completed |-> FALSE]]
RunEndedMsg ==
    [type |-> "run",
     data |-> [id |-> "r1", pipelineId |-> "p1", status |-> "completed",
               startedAt |-> 0, completed |-> TRUE]]
\* a key that an object does not have (undefined)
Absent == -1
\* v || 0: undefined and 0 both give 0
OrZero(v) == IF v = Absent THEN 0 ELSE v
\* step.config as calculateStepMetrics reads it: the two counts, Absent when the
\* application's config has no such key
NoCounts == [inputCount |-> Absent, outputCount |-> Absent]
\* XRStep has no runId field; a producer may add one
StepEndedMsg(hasRunId) ==
    [type |-> "step",
     data |-> [id |-> "s1", type |-> "filter", startedAt |-> 0, completed |-> TRUE,
               hasRunId |-> hasRunId, runId |-> "r1", config |-> NoCounts]]
StepEvent(i) ==
    [id |-> i, stepId |-> "s1", runId |-> "r1",
     outcome |-> Outcomes[((i - 1) % Len(Outcomes)) + 1],
     timestamp |-> i - 1,
     inputCount |-> MaxStepEvents]
StepEvents == [i \in 1..MaxStepEvents |-> StepEvent(i)]
DecisionMsg(i) == [type |-> "decision", data |-> StepEvent(i)]
DecisionsMsg == [type |-> "decisions", data |-> StepEvents]

WorkerMessages ==
    {RunStartedMsg, RunEndedMsg, DecisionsMsg}
        \cup {StepEndedMsg(h) : h \in BOOLEAN}
        \cup {DecisionMsg(i) : i \in 1..MaxStepEvents}

\* the worker's caches and the stores, threaded through one message's handling
WorkerState ==
    [runCache |-> runCache, stepCache |-> stepCache,
     stepDecisionEvents |-> stepDecisionEvents, blobs |-> blobs,
     eventRows |-> eventRows, stepRows |-> stepRows, runRows |-> runRows,
     threw |-> FALSE]

\* S3Storage key builders: <kind>/YYYY/MM/DD/<id>.json
DateOf(t) == t \div TicksPerDay
ObjectKey(kind, t, id) == <<kind, DateOf(t), id>>

\* PutObject of the blob store
S3PutSwallowing(ws, up, key, payload) ==
    IF up = "s3down" THEN ws
    ELSE [ws EXCEPT !.blobs = MapSet(@, key, payload)]
S3Put(ws, up, key, payload) ==
    IF up = "s3down" THEN [ws EXCEPT !.threw = TRUE]
    ELSE [ws EXCEPT !.blobs = MapSet(@, key, payload)]

\* client.insert into a table of the analytical store
Insert(ws, up, table, key, row) ==
    IF up = "chdown" THEN [ws EXCEPT !.threw = TRUE]
    ELSE [ws EXCEPT ![table] = MapSet(@, key, row)]

\* map.get(k) || []
EventsOf(map, stepId) == IF stepId \in DOMAIN map THEN map[stepId] ELSE <<>>

CountOutcome(evs, o) == Cardinality({i \in 1..Len(evs) : evs[i].outcome = o})

\* ClickHouseStorage.calculateStepMetrics in its older version, which does not
\* read step.config and counts every event as output; eliminationRatio
\* 1 - out/in is kept as the pair (in - out, in)
CalculateStepMetricsOlder(step, run, evs) ==
    LET inputCount == IF Len(evs) > 0
                      THEN (IF OrZero(evs[1].inputCount) # 0 THEN evs[1].inputCount
                            ELSE Len(evs))
                      ELSE 0
        outputCount == Len(evs)
    IN [stepId |-> step.id, runId |-> run.id, pipelineId |-> run.pipelineId,
        stepType |-> step.type, inputCount |-> inputCount,
        outputCount |-> outputCount,
        eliminationRatio |-> IF inputCount > 0
                             THEN <<inputCount - outputCount, inputCount>>
                             ELSE <<0, 1>>,
        keptCount |-> CountOutcome(evs, "kept"),
        eliminatedCount |-> CountOutcome(evs, "eliminated"),
        scoredCount |-> CountOutcome(evs, "scored")]

\* ClickHouseStorage.calculateStepMetrics: inputCount from step.config, else
\* from the first event's metadata, else the number of events; outputCount
\* from step.config, else kept + scored
CalculateStepMetrics(step, run, evs) ==
    LET cfgIn == OrZero(step.config.inputCount)
        cfgOut == OrZero(step.config.outputCount)
        fromMeta == IF cfgIn = 0 /\ Len(evs) > 0
                    THEN OrZero(evs[1].inputCount) ELSE cfgIn
        inputCount == IF fromMeta = 0 /\ Len(evs) > 0 THEN Len(evs) ELSE fromMeta
        outputCount == IF cfgOut = 0
                       THEN CountOutcome(evs, "kept") + CountOutcome(evs, "scored")
                       ELSE cfgOut
    IN [stepId |-> step.id, runId |-> run.id, pipelineId |-> run.pipelineId,
        stepType |-> step.type, inputCount |-> inputCount,
        outputCount |-> outputCount,
        eliminationRatio |-> IF inputCount > 0
                             THEN <<inputCount - outputCount, inputCount>>
                             ELSE <<0, 1>>,
        keptCount |-> CountOutcome(evs, "kept"),
        eliminatedCount |-> CountOutcome(evs, "eliminated"),
        scoredCount |-> CountOutcome(evs, "scored")]

RECURSIVE SumOf(_, _)
\* stepMetrics.reduce((sum, s) => sum + s[field], 0)
SumOf(metrics, field) ==
    IF metrics = {} THEN 0
    ELSE LET m == CHOOSE x \in metrics : TRUE
         IN m[field] + SumOf(metrics \ {m}, field)

\* ClickHouseStorage.calculateRunMetrics
CalculateRunMetrics(run, stepMetrics) ==
    LET totalIn == SumOf(stepMetrics, "inputCount")
        totalOut == SumOf(stepMetrics, "outputCount")
    IN [runId |-> run.id, pipelineId |-> run.pipelineId, status |-> run.status,
        totalSteps |-> Cardinality(stepMetrics),
        totalInputCount |-> totalIn, totalOutputCount |-> totalOut,
        overallEliminationRatio |-> IF totalIn > 0 THEN <<totalIn - totalOut, totalIn>>
                                    ELSE <<0, 1>>]

\* processDecisionEvent
ProcessDecisionEvent(ws, up, event) ==
    LET key == ObjectKey("decisions", event.timestamp, event.id)
        stored == S3Put(ws, up, key, event)
        pipelineId == IF event.runId \in DOMAIN ws.runCache
                      THEN ws.runCache[event.runId].pipelineId ELSE "unknown"
        row == [event_id |-> event.id, outcome |-> event.outcome,
                pipeline_id |-> pipelineId, s3_key |-> key]
        referenced == IF stored.threw THEN stored
                      ELSE Insert(stored, up, "eventRows",
                                  <<event.runId, event.stepId, event.timestamp>>, row)
    IN IF referenced.threw THEN referenced
       ELSE [referenced EXCEPT !.stepDecisionEvents =
                MapSet(@, event.stepId, Append(EventsOf(@, event.stepId), event))]

RECURSIVE ProcessDecisionEvents(_, _, _)
\* processDecisionEvents: for (const event of events) await processDecisionEvent
ProcessDecisionEvents(ws, up, events) ==
    IF ws.threw \/ events = <<>> THEN ws
    ELSE ProcessDecisionEvents(ProcessDecisionEvent(ws, up, Head(events)), up,
                               Tail(events))

\* (step as any).runId || fallback
RunIdOf(step, fallback) == IF step.hasRunId THEN step.runId ELSE fallback

\* aggregateStepMetrics
AggregateStepMetrics(ws, up, stepId) ==
    IF stepId \notin DOMAIN ws.stepCache THEN ws
    ELSE LET step == ws.stepCache[stepId]
             runId == RunIdOf(step, "")
         IN IF runId \notin DOMAIN ws.runCache THEN ws
            ELSE LET metrics == CalculateStepMetrics(step, ws.runCache[runId],
                                    EventsOf(ws.stepDecisionEvents, stepId))
                 IN Insert(ws, up, "stepRows", <<metrics.stepId, metrics.runId>>,
                           metrics)

\* aggregateRunMetrics
AggregateRunMetrics(ws, up, runId) ==
    IF runId \notin DOMAIN ws.runCache THEN ws
    ELSE LET run == ws.runCache[runId]
             own == {sid \in DOMAIN ws.stepCache :
                        /\ ws.stepCache[sid].hasRunId
                        /\ ws.stepCache[sid].runId = runId}
             stepMetrics == {CalculateStepMetrics(ws.stepCache[sid], run,
                                 EventsOf(ws.stepDecisionEvents, sid)) : sid \in own}
         IN Insert(ws, up, "runRows", runId, CalculateRunMetrics(run, stepMetrics))

\* processRun
ProcessRun(ws, up, run) ==
    LET stored == S3Put(ws, up, ObjectKey("runs", run.startedAt, run.id), run)
        cached == [stored EXCEPT !.runCache = MapSet(@, run.id, run)]
    IN IF stored.threw THEN stored
       ELSE IF run.status \in {"completed", "failed"}
            THEN AggregateRunMetrics(cached, up, run.id)
            ELSE cached

\* processStep
ProcessStep(ws, up, step) ==
    LET stored == S3Put(ws, up, ObjectKey("steps", step.startedAt, step.id), step)
        cached == [stored EXCEPT !.stepCache = MapSet(@, step.id, step)]
    IN IF stored.threw THEN stored
       ELSE IF step.completed THEN AggregateStepMetrics(cached, up, step.id)
            ELSE cached

\* processMessage
ProcessMessage(ws, up, m) ==
    CASE m.type = "decision" -> ProcessDecisionEvent(ws, up, m.data)
      [] m.type = "decisions" -> ProcessDecisionEvents(ws, up, m.data)
      [] m.type = "run" -> ProcessRun(ws, up, m.data)
      [] m.type = "step" -> ProcessStep(ws, up, m.data)
      [] OTHER -> ws

\* InMemoryQueue.add(message)
QueueAdd ==
    \E m \in WorkerMessages :
        /\ Len(enqueued) < MaxMessages
        /\ enqueued' = Append(enqueued, m)
        /\ queue' = Append(queue, [messageId |-> Len(enqueued) + 1, type |-> m.type,
                                   data |-> m.data])
        /\ UNCHANGED <<bufVars, sdkVars, fnVars, processedIds, batch, failedIds, storeUp,
                       runCache, stepCache, stepDecisionEvents, blobs, eventRows,
                       stepRows, runRows>>

\* processBatch up to its loop: messages = await queue.poll(batchSize), where
\* poll is messages.splice(0, maxMessages)
Poll ==
    /\ batch = <<>>
    /\ queue # <<>>
    /\ LET k == Min(WorkerBatchSize, Len(queue))
       IN /\ batch' = SubSeq(queue, 1, k)
          /\ queue' = SubSeq(queue, k + 1, Len(queue))
    /\ UNCHANGED <<bufVars, sdkVars, fnVars, enqueued, processedIds, failedIds, storeUp,
                   runCache, stepCache, stepDecisionEvents, blobs, eventRows,
                   stepRows, runRows>>

\* the messages the for-of loop of processBatch still visits after one
\* message: the catch is inside the loop body, so all that follow
RestOfBatchHalting(b, threw) == IF threw THEN <<>> ELSE Tail(b)
RestOfBatch(b, threw) == Tail(b)

\* one turn of the loop of processBatch: processMessage, then deleteMessage
\* on success; on exception the error is logged and the loop goes on
ProcessNext ==
    /\ batch # <<>>
    /\ LET m == Head(batch)
           ws == ProcessMessage(WorkerState, storeUp, m)
       IN /\ runCache' = ws.runCache
          /\ stepCache' = ws.stepCache
          /\ stepDecisionEvents' = ws.stepDecisionEvents
          /\ blobs' = ws.blobs
          /\ eventRows' = ws.eventRows
          /\ stepRows' = ws.stepRows
          /\ runRows' = ws.runRows
          /\ processedIds' = IF ws.threw THEN processedIds
                             ELSE processedIds \cup {m.messageId}
          /\ failedIds' = IF ws.threw THEN failedIds \cup {m.messageId}
                          ELSE failedIds
          /\ batch' = RestOfBatch(batch, ws.threw)
    /\ UNCHANGED <<bufVars, sdkVars, fnVars, enqueued, queue, storeUp>>

\* a store stops answering, or answers again
StoreChange ==
    \E st \in StoreStates \ {storeUp} :
        /\ storeUp' = st
        /\ UNCHANGED <<bufVars, sdkVars, fnVars, enqueued, queue, processedIds, batch,
                       failedIds, runCache, stepCache, stepDecisionEvents, blobs,
                       eventRows, stepRows, runRows>>

BufIdle ==
    /\ cfgMaxSize = DefaultMaxSize
    /\ cfgBatchSize = DefaultBatchSize
    /\ buffer = <<>>
    /\ flushTimer = TRUE
    /\ isFlushing = FALSE
    /\ dispatches = {}
    /\ handed = {}
    /\ dropped = {}
    /\ nextId = 1
    /\ ff = NoCall
    /\ lastSettle = [callback |-> "none", flush |-> "none"]

InitWorker == BufIdle /\ SdkIdle /\ WorkerIdle /\ FnIdle

NextWorker == QueueAdd \/ Poll \/ ProcessNext \/ StoreChange

SpecWorker == InitWorker /\ [][NextWorker]_vars

\* GET /runs/:id: getRunById, then getStepsByRunId
GetRun(runId) ==
    IF runId \notin DOMAIN runRows THEN [found |-> FALSE]
    ELSE [found |-> TRUE, metrics |-> runRows[runId],
          steps |-> {stepRows[k] : k \in {x \in DOMAIN stepRows : x[2] = runId}}]

\* ---- SpecSampler: shouldSample asked about every index of a batch in turn,
\* as the forEach of captureStepMetrics asks it

\* largest totalCount and targetSampleSize of a walk
MaxSampleN == 20
MaxSampleK == 6

\* the answer for the next index
SampleNext ==
    /\ sampleIndex < sampleN
    /\ picked' = IF ShouldSample(sampleIndex, sampleN, sampleK)
                 THEN picked \cup {sampleIndex} ELSE picked
    /\ sampleIndex' = sampleIndex + 1
    /\ UNCHANGED <<bufVars, sdkVars, workerVars, sampleN, sampleK, besideSampler>>

CaptureIdle ==
    /\ capIn = [level |-> "none"]
    /\ emitted = <<>>
    /\ delivered = {}

InitSampler ==
    /\ BufIdle /\ SdkIdle /\ WorkerIdle /\ CaptureIdle /\ IngestIdle /\ MetricsIdle /\ LifeIdle /\ QueryIdle /\ BrokerIdle
    /\ sampleN \in 1..MaxSampleN
    /\ sampleK \in 2..MaxSampleK
    /\ sampleIndex = 0
    /\ picked = {}

NextSampler == SampleNext

SpecSampler == InitSampler /\ [][NextSampler]_vars

\* ---- SpecCapture: one step() call over a sequence, its captured events and
\* its messages followed through the worker to the rows of the analytical store

\* largest input of the followed step
MaxCaptureN == 15

\* what businessLogic returns: the input elements at the indexes in keep, in
\* their input order (a filter)
FnKeeps(n) == {1..p : p \in 0..n} \cup {(n - p + 1)..n : p \in 0..n}

\* the step() calls followed: capture level, step type, kind of elements,
\* input length, what businessLogic keeps, and whether the producer of the
\* Step message adds the runId that XRStep lacks
CaptureCalls ==
    UNION {{[level |-> l, type |-> t, kind |-> kd, n |-> n, keep |-> kp,
             hasRunId |-> h, captured |-> FALSE] :
                l \in CaptureLevels, t \in StepTypes, kd \in ItemKinds,
                kp \in FnKeeps(n), h \in BOOLEAN} : n \in 0..MaxCaptureN}

StepInput(call) == [i \in 1..call.n |-> Item(call.kind, i)]
StepOutput(call) == SelectSeq(StepInput(call), LAMBDA it : it.ref \in call.keep)

\* step(): businessLogic has returned and captureStepMetrics runs
CaptureStep ==
    /\ capIn.level # "none"
    /\ ~capIn.captured
    /\ LET input == StepInput(capIn)
           output == StepOutput(capIn)
           c == [runId |-> "r1", stepId |-> "s1", type |-> capIn.type,
                 inArray |-> TRUE, n |-> Len(input), inputCount |-> Len(input),
                 outArray |-> TRUE, out |-> Matched(input, output),
                 outputCount |-> Len(output), cb |-> "none", cbRaiseAt |-> 0,
                 level |-> capIn.level, cfg |-> cfgMaxSize, ts |-> 0]
       IN emitted' = Captured(c, 1).events
    /\ capIn' = [capIn EXCEPT !.captured = TRUE]
    /\ UNCHANGED <<bufVars, sdkVars, workerVars, besideCapture, delivered>>

\* the messages of the followed step as they reach the worker: the Run of
\* startRun, the completed Step, and the batch of its events
CaptureMessage(kind) ==
    CASE kind = "run" -> RunStartedMsg
      [] kind = "step" ->
            [type |-> "step",
             data |-> [id |-> "s1", type |-> capIn.type, startedAt |-> 0,
                       completed |-> TRUE, hasRunId |-> capIn.hasRunId,
                       runId |-> "r1", config |-> NoCounts]]
      [] kind = "decisions" -> [type |-> "decisions", data |-> emitted]

\* processMessage for one of these messages; the batch of events exists only
\* when events were captured, and the messages arrive in any order
WorkerGets ==
    \E kind \in {"run", "step", "decisions"} \ delivered :
        /\ capIn.level # "none"
        /\ capIn.captured
        /\ kind = "decisions" => emitted # <<>>
        /\ LET ws == ProcessMessage(WorkerState, storeUp, CaptureMessage(kind))
           IN /\ runCache' = ws.runCache
              /\ stepCache' = ws.stepCache
              /\ stepDecisionEvents' = ws.stepDecisionEvents
              /\ blobs' = ws.blobs
              /\ eventRows' = ws.eventRows
              /\ stepRows' = ws.stepRows
              /\ runRows' = ws.runRows
        /\ delivered' = delivered \cup {kind}
        /\ UNCHANGED <<bufVars, sdkVars, besideCapture, capIn, emitted, enqueued, queue,
                       processedIds, batch, failedIds, storeUp>>

SamplerIdle ==
    /\ sampleN = 0
    /\ sampleK = 0
    /\ sampleIndex = 0
    /\ picked = {}

InitCapture ==
    /\ BufIdle /\ SdkIdle /\ WorkerIdle /\ SamplerIdle /\ IngestIdle /\ MetricsIdle /\ LifeIdle /\ QueryIdle /\ BrokerIdle
    /\ capIn \in CaptureCalls
    /\ emitted = <<>>
    /\ delivered = {}

NextCapture == CaptureStep \/ WorkerGets

SpecCapture == InitCapture /\ [][NextCapture]_vars

\* ------------------------------------------------------------ ingestion-api

\* elements of a decisions batch, and entries the queue holds before the API
\* is no longer called
MaxBatch == 3
MaxIngested == 1

\* a payload as the schemas see it: which schema it is meant for, whether its
\* schema fields are all present and well typed, and whether it carries a
\* field the schema does not name
Payloads(kind) ==
    {[kind |-> kind, wellFormed |-> w, extra |-> x] : w \in BOOLEAN, x \in BOOLEAN}

\* Schema.parse(data) of a z.object: raises on a missing or ill-typed field,
\* and returns the fields of the schema only (unknown keys are stripped)
SchemaParse(schema, payload) ==
    IF payload.kind = schema /\ payload.wellFormed
    THEN [success |-> TRUE, data |-> [payload EXCEPT !.extra = FALSE]]
    ELSE [success |-> FALSE, error |-> "Validation failed"]

\* validateDecisionEvent, validateRun, validateStep
ValidateOne(schema, data) ==
    IF data.array THEN [success |-> FALSE, error |-> "Validation failed"]
    ELSE SchemaParse(schema, data.items[1])

\* validateDecisionEvents
ValidateDecisionEvents(data) ==
    IF ~data.array
    THEN [success |-> FALSE, error |-> "Expected array of decision events", data |-> <<>>]
    ELSE LET results == SelectSeq(data.items,
                                  LAMBDA e : SchemaParse("decision", e).success)
             parsed == [i \in 1..Len(results) |->
                            SchemaParse("decision", results[i]).data]
         IN IF Len(parsed) = 0
            THEN [success |-> FALSE, error |-> "All events invalid", data |-> <<>>]
            ELSE [success |-> TRUE, data |-> parsed,
                  error |-> IF Len(parsed) < Len(data.items)
                            THEN "Some events invalid" ELSE "none"]

\* RedisQueue.pushDecisionEvent / pushRun / pushStep: lPush, false when it
\* raises; failAt = 1 is the push that raises
QueuePush(q, entry, failAt) ==
    IF failAt = 1 THEN [q |-> q, ok |-> FALSE]
    ELSE [q |-> Append(q, entry), ok |-> TRUE]

\* RedisQueue.pushDecisionEvents: one lPush per event, events.length when all
\* went through, 0 when one raised (those before it stay pushed)
QueuePushAll(q, events, failAt) ==
    LET entries == [i \in 1..Len(events) |-> [type |-> "decision", data |-> events[i]]]
    IN IF failAt = 0 \/ failAt > Len(events)
       THEN [q |-> q \o entries, count |-> Len(events)]
       ELSE [q |-> q \o SubSeq(entries, 1, failAt - 1), count |-> 0]

\* the bodies POSTed to /ingest
IngestData ==
    {[present |-> FALSE, array |-> FALSE, items |-> <<>>]}
    \cup {[present |-> TRUE, array |-> FALSE, items |-> <<pl>>] :
            pl \in UNION {Payloads(kd) : kd \in {"decision", "run", "step"}}}
    \cup {[present |-> TRUE, array |-> TRUE, items |-> its] :
            its \in UNION {[1..n -> {pl \in Payloads("decision") : ~pl.extra}] :
                              n \in 0..MaxBatch}}
IngestTypes == {"", "decision", "decisions", "run", "step", "other"}

Bad(error) == [status |-> 400, success |-> FALSE, error |-> error]
Failed(error) == [status |-> 500, success |-> FALSE, error |-> error]

\* router.post('/ingest'): the answer and the queue afterwards
IngestRoute(q, type, data, failAt) ==
    IF type = "" \/ ~data.present
    THEN [q |-> q, res |-> Bad("Missing required fields: type and data")]
    ELSE IF type \in {"decision", "run", "step"}
    THEN LET validation == ValidateOne(type, data)
             pushed == QueuePush(q, [type |-> type, data |-> validation.data], failAt)
         IN IF ~validation.success THEN [q |-> q, res |-> Bad(validation.error)]
            ELSE IF ~pushed.ok THEN [q |-> pushed.q, res |-> Failed("Failed to queue")]
            ELSE [q |-> pushed.q,
                  res |-> [status |-> 200, success |-> TRUE, queued |-> TRUE]]
    ELSE IF type = "decisions"
    THEN LET validation == ValidateDecisionEvents(data)
             pushed == QueuePushAll(q, validation.data, failAt)
             totalCount == Len(validation.data)
         IN IF ~validation.success THEN [q |-> q, res |-> Bad(validation.error)]
            ELSE [q |-> pushed.q,
                  res |-> [status |-> 200, success |-> TRUE, queued |-> pushed.count,
                           total |-> totalCount, partial |-> pushed.count < totalCount,
                           warning |-> validation.error]]
    ELSE [q |-> q, res |-> Bad("Unknown event type")]

\* one POST /ingest, against a queue whose failAt-th push of this request
\* raises (0: none does)
Ingest ==
    \E type \in IngestTypes, data \in IngestData :
      \E failAt \in 0..Len(data.items) :
        /\ Len(ingested) < MaxIngested
        /\ LET r == IngestRoute(ingested, type, data, failAt)
           IN /\ ingested' = r.q
              /\ lastResponse' = r.res
              /\ lastRequest' = [type |-> type, data |-> data, failAt |-> failAt,
                                 before |-> Len(ingested)]
        /\ UNCHANGED <<bufVars, sdkVars, workerVars, besideIngest>>

InitIngest ==
    /\ BufIdle /\ SdkIdle /\ WorkerIdle /\ SamplerIdle /\ CaptureIdle /\ IngestIdle /\ MetricsIdle /\ LifeIdle /\ QueryIdle /\ BrokerIdle

NextIngest == Ingest

SpecIngest == InitIngest /\ [][NextIngest]_vars

\* ------------------------------------------------------------------
\* ClickHouseStorage.calculateStepMetrics and calculateRunMetrics applied to
\* a step of chosen config counts and chosen decision events, alone in its
\* run or next to a second step (SpecMetrics)

\* largest count an application puts in step.config or in event metadata
MaxCount == 2
\* most decision events the worker has tracked for the step
MaxMetricEvents == 2

\* step.config: inputCount and outputCount, each a count or absent
ConfigCounts ==
    [inputCount : {Absent} \cup 0..MaxCount, outputCount : {Absent} \cup 0..MaxCount]

\* the decision events tracked for the step: any outcomes, all carrying the
\* same metadata.inputCount (Absent where the event has none)
MetricEvents ==
    UNION {{[i \in 1..n |->
                [id |-> i, stepId |-> "s1", runId |-> "r1", outcome |-> o[i],
                 timestamp |-> 0, inputCount |-> m]] :
               o \in [1..n -> Range(Outcomes)], m \in {Absent} \cup 0..MaxCount} :
           n \in 0..MaxMetricEvents}

MetricsRun == RunEndedMsg.data
MetricsStep(config) == [StepEndedMsg(TRUE).data EXCEPT !.config = config]
\* a second step of the run, without events
SecondStep == [StepEndedMsg(TRUE).data EXCEPT !.id = "s2",
                  !.config = [inputCount |-> MaxCount, outputCount |-> 1]]

\* calculateStepMetrics for each step of the run, then calculateRunMetrics
\* over them, as aggregateRunMetrics calls them
Calculate ==
    /\ ~metricsOut.done
    /\ LET own == CalculateStepMetrics(MetricsStep(metricsIn.config), MetricsRun,
                                       metricsIn.events)
           other == CalculateStepMetrics(SecondStep, MetricsRun, <<>>)
           all == IF metricsIn.steps = 2 THEN {own, other} ELSE {own}
       IN metricsOut' = [done |-> TRUE, step |-> own,
                         run |-> CalculateRunMetrics(MetricsRun, all)]
    /\ UNCHANGED <<metricsIn, bufVars, sdkVars, workerVars, besideMetrics>>

InitMetrics ==
    /\ BufIdle /\ SdkIdle /\ WorkerIdle /\ SamplerIdle /\ CaptureIdle /\ IngestIdle /\ LifeIdle /\ QueryIdle /\ BrokerIdle
    /\ metricsIn \in [steps : 1..2, config : ConfigCounts, events : MetricEvents]
    /\ metricsOut = [done |-> FALSE]

NextMetrics == Calculate

SpecMetrics == InitMetrics /\ [][NextMetrics]_vars

\* ------------------------------------------------------------------
\* processor-worker: the poll loop of ProcessorWorker under start() and
\* stop() calls, and the SIGTERM/SIGINT handlers of index.ts (SpecLifecycle).
\* A processBatch() call is followed from its start to the moment its
\* promise settles; what it does to the stores is SpecWorker's subject.

\* most processBatch() calls followed
MaxPolls == 4
\* most start() and stop() calls followed
MaxLifeCalls == 4

\* the state of the worker object, threaded through one call
LifeState ==
    [isRunning |-> isRunning, pollTimer |-> pollTimer, timers |-> timers,
     timerSeq |-> timerSeq, inFlight |-> inFlight, polls |-> polls]

\* pollLoop: returns when not running, else calls processBatch(), which
\* runs up to its first await and stays in flight
PollLoop(ls) ==
    IF ~ls.isRunning THEN ls
    ELSE [ls EXCEPT !.inFlight = @ + 1, !.polls = @ + 1]

\* start()
StartWorker(ls) ==
    IF ls.isRunning THEN ls
    ELSE PollLoop([ls EXCEPT !.isRunning = TRUE])

\* stop(): clears the flag and the timer pollTimer names, if that one is
\* still set; it awaits nothing
StopWorker(ls) ==
    [ls EXCEPT !.isRunning = FALSE,
               !.timers = IF ls.pollTimer # 0 THEN @ \ {ls.pollTimer} ELSE @,
               !.pollTimer = 0]

\* the .finally() of pollLoop: sets the next timer, whatever isRunning is
Finally(ls) ==
    [ls EXCEPT !.inFlight = @ - 1,
               !.timerSeq = @ + 1,
               !.pollTimer = ls.timerSeq + 1,
               !.timers = @ \cup {ls.timerSeq + 1}]

SetLife(ls) ==
    /\ isRunning' = ls.isRunning
    /\ pollTimer' = ls.pollTimer
    /\ timers' = ls.timers
    /\ timerSeq' = ls.timerSeq
    /\ inFlight' = ls.inFlight
    /\ polls' = ls.polls

Exited == shutdown.phase = "exited"

\* the application calls worker.start()
Start ==
    /\ ~Exited
    /\ lifeCalls < MaxLifeCalls
    /\ polls < MaxPolls
    /\ SetLife(StartWorker(LifeState))
    /\ lifeCalls' = lifeCalls + 1
    /\ UNCHANGED <<shutdown, bufVars, sdkVars, workerVars, besideLife>>

\* the application calls worker.stop()
Stop ==
    /\ ~Exited
    /\ lifeCalls < MaxLifeCalls
    /\ SetLife(StopWorker(LifeState))
    /\ lifeCalls' = lifeCalls + 1
    /\ UNCHANGED <<shutdown, bufVars, sdkVars, workerVars, besideLife>>

\* the promise of a processBatch() call settles
BatchSettles ==
    /\ ~Exited
    /\ inFlight > 0
    /\ SetLife(Finally(LifeState))
    /\ UNCHANGED <<lifeCalls, shutdown, bufVars, sdkVars, workerVars, besideLife>>

\* a poll timer fires: pollLoop()
TimerFires ==
    \E t \in timers :
        /\ ~Exited
        /\ polls < MaxPolls
        /\ SetLife(PollLoop([LifeState EXCEPT !.timers = @ \ {t}]))
        /\ UNCHANGED <<lifeCalls, shutdown, bufVars, sdkVars, workerVars, besideLife>>

\* SIGTERM or SIGINT, handled once main() has started the worker: the
\* handler runs worker.stop() and calls clickhouse.close()
Shutdown ==
    /\ shutdown.phase = "none"
    /\ lifeCalls > 0
    /\ SetLife(StopWorker(LifeState))
    /\ shutdown' = [phase |-> "closing", inFlightAtClose |-> inFlight]
    /\ UNCHANGED <<lifeCalls, bufVars, sdkVars, workerVars, besideLife>>

\* clickhouse.close() has resolved: process.exit(0)
Exit ==
    /\ shutdown.phase = "closing"
    /\ shutdown' = [shutdown EXCEPT !.phase = "exited"]
    /\ UNCHANGED <<isRunning, pollTimer, timers, timerSeq, inFlight, polls, lifeCalls,
                   bufVars, sdkVars, workerVars, besideLife>>

InitLifecycle ==
    /\ BufIdle /\ SdkIdle /\ WorkerIdle /\ SamplerIdle /\ CaptureIdle /\ IngestIdle /\ QueryIdle /\ BrokerIdle
    /\ MetricsIdle /\ LifeIdle

NextLifecycle == Start \/ Stop \/ BatchSettles \/ TimerFires \/ Shutdown \/ Exit

SpecLifecycle == InitLifecycle /\ [][NextLifecycle]_vars

\* ------------------------------------------------------------------
\* query-api: the routes over ClickHouseQuery and S3Client (SpecQuery).
\* The stores hold run r1 with its step s1 and that step's decision event,
\* each present or not; requests name those ids or ids never stored.

QueryRunIds == {"r1", "r2"}
QueryStepIds == {"s1", "s2"}
QueryRoutes == {"runs", "run", "step"}
\* the store calls of a handler, any of which may fail
StoreCalls == {"first", "second", "s3"}

QueryStores ==
    [runs : SUBSET {"r1"}, steps : SUBSET {"s1"}, events : SUBSET {"e1"},
     blobs : SUBSET {"r1", "s1", "e1"}]

NoRow == [found |-> FALSE]
Row(id) == [found |-> TRUE, id |-> id]

\* ClickHouseQuery.queryRuns: catches a failed query and returns []
QueryRuns(store, failed) == IF failed THEN {} ELSE store.runs
\* ClickHouseQuery.getRunById: catches a failed query and returns null
GetRunById(store, failed, runId) ==
    IF failed THEN NoRow
    ELSE IF runId \in store.runs THEN Row(runId) ELSE NoRow
\* ClickHouseQuery.getStepsByRunId: catches a failed query and returns []
GetStepsByRunId(store, failed, runId) ==
    IF failed \/ runId # "r1" THEN {} ELSE store.steps
\* ClickHouseQuery.getStepById: catches a failed query and returns null
GetStepById(store, failed, stepId) ==
    IF failed THEN NoRow
    ELSE IF stepId \in store.steps THEN Row(stepId) ELSE NoRow
\* ClickHouseQuery.getDecisionEventsByStepId: catches and returns []
GetDecisionEventsByStepId(store, failed, stepId) ==
    IF failed \/ stepId # "s1" THEN {} ELSE store.events

\* S3Client.getRun / getStep / getDecisionEvent: null for a missing key,
\* any other error is thrown
S3Get(store, failed, key) ==
    IF failed THEN [threw |-> TRUE]
    ELSE [threw |-> FALSE, payload |-> IF key \in store.blobs THEN Row(key) ELSE NoRow]

NotFound(error) == [status |-> 404, success |-> FALSE, error |-> error]
QueryFailed(error) == [status |-> 500, success |-> FALSE, error |-> error]

\* GET /runs
ListRuns(store, fails) ==
    [status |-> 200, success |-> TRUE, data |-> QueryRuns(store, "first" \in fails)]

\* GET /runs/:id
GetRunDetail(store, runId, includeRaw, fails) ==
    LET runRow == GetRunById(store, "first" \in fails, runId)
        steps == GetStepsByRunId(store, "second" \in fails, runId)
        raw == S3Get(store, "s3" \in fails, runId)
    IN IF ~runRow.found THEN NotFound("Run not found")
       ELSE IF includeRaw /\ raw.threw THEN QueryFailed("Failed to get run")
       ELSE [status |-> 200, success |-> TRUE,
             data |-> [id |-> runRow.id, steps |-> steps,
                       rawPayload |-> IF includeRaw THEN raw.payload ELSE NoRow]]

\* GET /steps/:id/details
GetStepDetails(store, stepId, includeRaw, fails) ==
    LET stepRow == GetStepById(store, "first" \in fails, stepId)
        events == GetDecisionEventsByStepId(store, "second" \in fails, stepId)
        rawEvents == {S3Get(store, "s3" \in fails, e) : e \in events}
        raw == S3Get(store, "s3" \in fails, stepId)
    IN IF ~stepRow.found THEN NotFound("Step not found")
       ELSE IF includeRaw /\ (raw.threw \/ \E r \in rawEvents : r.threw)
            THEN QueryFailed("Failed to get step details")
       ELSE [status |-> 200, success |-> TRUE,
             data |-> [id |-> stepRow.id, decisionEvents |-> events,
                       rawPayload |-> IF includeRaw THEN raw.payload ELSE NoRow]]

QueryRoute(store, route, id, includeRaw, fails) ==
    CASE route = "runs" -> ListRuns(store, fails)
      [] route = "run" -> GetRunDetail(store, id, includeRaw, fails)
      [] route = "step" -> GetStepDetails(store, id, includeRaw, fails)

\* one request to the query API
Query ==
    \E route \in QueryRoutes, includeRaw \in BOOLEAN, fails \in SUBSET StoreCalls :
        \E id \in CASE route = "step" -> QueryStepIds
                     [] route = "run" -> QueryRunIds
                     [] OTHER -> {""} :
            /\ lastQuery' = [route |-> route, id |-> id, includeRaw |-> includeRaw,
                             fails |-> fails]
            /\ queryResponse' = QueryRoute(queryStore, route, id, includeRaw, fails)
            /\ UNCHANGED <<queryStore, bufVars, sdkVars, workerVars, besideQuery>>

InitQuery ==
    /\ BufIdle /\ SdkIdle /\ WorkerIdle /\ SamplerIdle /\ CaptureIdle /\ IngestIdle /\ BrokerIdle
    /\ MetricsIdle /\ LifeIdle
    /\ queryStore \in QueryStores
    /\ lastQuery = [route |-> "none"]
    /\ queryResponse = [status |-> 0]

NextQuery == Query

SpecQuery == InitQuery /\ [][NextQuery]_vars

(***************************************************************************)
(* The queue adapters and their broker.  A worker-side adapter (in-memory, *)
(* Redis or RabbitMQ) polls the messages producers publish and the worker  *)
(* processes each batch; an ingestion-side RabbitMQ adapter pushes.  The   *)
(* RabbitMQ adapters hold one connection and one channel, opened by        *)
(* connect() and dropped by the 'error' and 'close' handlers.              *)
(***************************************************************************)
\* message ids producers use; a producer may publish one id twice
MaxMessageId == 2
\* messages published in one behaviour
MaxPublish == 2
\* messages one poll returns at most
BrokerBatch == 2
\* times the broker's connections are lost in one behaviour
MaxLosses == 1
\* executions counted per message
MaxExecs == 2

Adapters ==
    {[side |-> "worker", kind |-> k] : k \in {"memory", "redis", "rabbitmq"}}
        \cup {[side |-> "ingestion", kind |-> "rabbitmq"]}

\* the connections some part of the state still names
KnownConns ==
    brokerNet.open \cup {e[1] : e \in brokerNet.due} \cup {u.conn : u \in unacked}
        \cup ({amqp.connection, amqp.channel} \ {0})

\* amqp.connect(url): a connection the state does not name yet
FreshConn == CHOOSE c \in 1..(Cardinality(KnownConns) + 1) : c \notin KnownConns

\* the messages one poll takes off the broker, oldest first
Polled(msgs) == SubSeq(msgs, 1, Min(BrokerBatch, Len(msgs)))

Unpolled(msgs) == SubSeq(msgs, Min(BrokerBatch, Len(msgs)) + 1, Len(msgs))

RECURSIVE InPublishOrder(_)
\* a set of published messages as a sequence, oldest first
InPublishOrder(S) ==
    IF S = {} THEN <<>>
    ELSE LET m == CHOOSE x \in S : \A y \in S : x <= y
         IN <<m>> \o InPublishOrder(S \ {m})

\* RabbitMQQueue.poll once ensureConnected has answered true: channel.get
\* with noAck false leaves every message it returns unacknowledged on the
\* channel's connection; a get on a channel whose connection is gone throws
\* and the poll returns []
ChannelGet(link) ==
    IF link.channel \in brokerNet.open
    THEN /\ workBatch' = Polled(ready)
         /\ ready' = Unpolled(ready)
         /\ unacked' = unacked \cup
                {[pub |-> Polled(ready)[i], conn |-> link.channel] : i \in 1..Len(Polled(ready))}
         /\ lastOp' = "polled"
    ELSE /\ lastOp' = "threw"
         /\ UNCHANGED <<workBatch, ready, unacked>>

\* channel.sendToQueue once ensureConnected has answered true; the messages
\* an ingestion adapter pushes are not followed
SendToQueue(link) ==
    /\ lastOp' = IF link.channel \in brokerNet.open THEN "sent" ELSE "threw"
    /\ UNCHANGED <<workBatch, ready, unacked>>

\* connect: returns at once while isConnecting is set, else sets it and
\* awaits amqp.connect
Connect ==
    IF amqp.isConnecting
    THEN /\ lastOp' = "notConnected"
         /\ UNCHANGED <<amqp, connecting>>
    ELSE /\ amqp' = [amqp EXCEPT !.isConnecting = TRUE]
         /\ connecting' = "op"
         /\ UNCHANGED lastOp

\* a producer publishes a message for the worker.  The messageId is the
\* producer's and may repeat, except with Redis, where poll makes a new one
\* for every message it pops.  Ids are named in the order of their first
\* use: a new id is the least one not used yet.
Publish ==
    \E id \in 1..Min(MaxMessageId, Cardinality({published[p] : p \in 1..Len(published)}) + 1) :
        /\ adapter.side = "worker"
        /\ Len(published) < MaxPublish
        /\ adapter.kind = "redis" => \A p \in 1..Len(published) : published[p] # id
        /\ published' = Append(published, id)
        /\ ready' = Append(ready, Len(published) + 1)
        /\ execs' = Append(execs, 0)
        /\ UNCHANGED <<adapter, amqp, connecting, brokerNet, unacked, workBatch, queueProcessed, lastOp>>
        /\ UNCHANGED <<bufVars, sdkVars, workerVars, besideBroker>>

\* poll of the worker's adapter, called by the polling loop when no batch
\* is being processed
BrokerPoll ==
    /\ adapter.side = "worker"
    /\ workBatch = <<>>
    /\ connecting # "op"
    /\ CASE adapter.kind = "memory" ->
              /\ workBatch' = Polled(ready)
              /\ ready' = Unpolled(ready)
              /\ lastOp' = "polled"
              /\ UNCHANGED <<amqp, connecting, unacked>>
         [] adapter.kind = "redis" ->
              /\ IF brokerNet.up
                 THEN /\ workBatch' = Polled(ready)
                      /\ ready' = Unpolled(ready)
                      /\ lastOp' = "polled"
                 ELSE /\ lastOp' = "threw"
                      /\ UNCHANGED <<workBatch, ready>>
              /\ UNCHANGED <<amqp, connecting, unacked>>
         [] adapter.kind = "rabbitmq" ->
              IF amqp.channel # 0
              THEN ChannelGet(amqp) /\ UNCHANGED <<amqp, connecting>>
              ELSE Connect /\ UNCHANGED <<workBatch, ready, unacked>>
    /\ UNCHANGED <<adapter, brokerNet, published, execs, queueProcessed>>
    /\ UNCHANGED <<bufVars, sdkVars, workerVars, besideBroker>>

\* pushRun, pushStep or pushDecisionEvent of the ingestion adapter
BrokerPush ==
    /\ adapter.side = "ingestion"
    /\ connecting # "op"
    /\ IF amqp.channel # 0
       THEN SendToQueue(amqp) /\ UNCHANGED <<amqp, connecting>>
       ELSE Connect /\ UNCHANGED <<workBatch, ready, unacked>>
    /\ UNCHANGED <<adapter, brokerNet, published, execs, queueProcessed>>
    /\ UNCHANGED <<bufVars, sdkVars, workerVars, besideBroker>>

\* the connect() call in flight settles.  With the broker reachable the
\* connection and channel are kept and the handlers registered, and
\* isConnecting stays set; otherwise the catch block clears isConnecting.
\* The poll or push that awaited the call goes on from ensureConnected.
ConnectSettles ==
    /\ connecting # "none"
    /\ connecting' = "none"
    /\ IF brokerNet.up
       THEN LET link == [amqp EXCEPT !.connection = FreshConn, !.channel = FreshConn]
                opened == [brokerNet EXCEPT !.open = @ \cup {FreshConn}]
            IN /\ amqp' = link
               /\ brokerNet' = opened
               /\ IF connecting = "op"
                  THEN IF adapter.side = "worker"
                       THEN LET got == Polled(ready)
                            IN /\ workBatch' = got
                               /\ ready' = Unpolled(ready)
                               /\ unacked' = unacked \cup
                                      {[pub |-> got[i], conn |-> FreshConn] : i \in 1..Len(got)}
                               /\ lastOp' = "polled"
                       ELSE /\ lastOp' = "sent"
                            /\ UNCHANGED <<workBatch, ready, unacked>>
                  ELSE UNCHANGED <<workBatch, ready, unacked, lastOp>>
       ELSE /\ amqp' = [amqp EXCEPT !.isConnecting = FALSE]
            /\ lastOp' = IF connecting = "op" THEN "notConnected" ELSE lastOp
            /\ UNCHANGED <<brokerNet, workBatch, ready, unacked>>
    /\ UNCHANGED <<adapter, published, execs, queueProcessed>>
    /\ UNCHANGED <<bufVars, sdkVars, workerVars, besideBroker>>

\* ProcessorWorker.isProcessed: always process
IsProcessed(messageId) == FALSE

\* deleteMessage of the adapter in use
DeleteMessage(messageId) ==
    queueProcessed' =
        IF adapter.kind = "memory" THEN queueProcessed \cup {messageId} ELSE queueProcessed

\* processBatch takes the next message of the batch: skipped when
\* isProcessed, else processMessage runs and, unless it raises,
\* deleteMessage follows
BrokerProcess ==
    /\ workBatch # <<>>
    /\ LET pub == Head(workBatch)
           messageId == published[pub]
       IN /\ workBatch' = Tail(workBatch)
          /\ IF IsProcessed(messageId)
             THEN /\ DeleteMessage(messageId)
                  /\ UNCHANGED execs
             ELSE \E raised \in BOOLEAN :
                      IF raised
                      THEN UNCHANGED <<execs, queueProcessed>>
                      ELSE /\ execs' = [execs EXCEPT ![pub] = Min(MaxExecs, @ + 1)]
                           /\ DeleteMessage(messageId)
    /\ UNCHANGED <<adapter, amqp, connecting, brokerNet, published, ready, unacked, lastOp>>
    /\ UNCHANGED <<bufVars, sdkVars, workerVars, besideBroker>>

\* the broker goes away or the network drops: every open connection is
\* lost, its 'error' handler is due, and a durable queue holds what was
\* unacknowledged on it ready again
ConnectionLost ==
    \E down \in BOOLEAN :
        /\ adapter.kind # "memory"
        /\ brokerNet.losses < MaxLosses
        /\ brokerNet.open # {} \/ (down /\ brokerNet.up)
        /\ brokerNet' = [up |-> IF down THEN FALSE ELSE brokerNet.up,
                   open |-> {},
                   due |-> brokerNet.due \cup {<<c, "error">> : c \in brokerNet.open},
                   losses |-> brokerNet.losses + 1]
        /\ ready' = InPublishOrder({u.pub : u \in unacked}) \o ready
        /\ unacked' = {}
        /\ UNCHANGED <<adapter, amqp, connecting, published, workBatch, execs, queueProcessed, lastOp>>
        /\ UNCHANGED <<bufVars, sdkVars, workerVars, besideBroker>>

\* the broker is reachable again
BrokerBack ==
    /\ ~brokerNet.up
    /\ brokerNet' = [brokerNet EXCEPT !.up = TRUE]
    /\ UNCHANGED <<adapter, amqp, connecting, published, ready, unacked, workBatch, execs,
                   queueProcessed, lastOp>>
    /\ UNCHANGED <<bufVars, sdkVars, workerVars, besideBroker>>

\* the 'error' handler of the worker's adapter
OnErrorWorker(link) == [connection |-> 0, channel |-> 0, isConnecting |-> FALSE]

\* the 'error' handler of the ingestion adapter
OnErrorIngestion(link) == [link EXCEPT !.connection = 0, !.channel = 0]

\* the 'close' handler of both adapters
OnCloseKeepingFlag(link) == [link EXCEPT !.connection = 0, !.channel = 0]

OnClose(link) == [connection |-> 0, channel |-> 0, isConnecting |-> FALSE]

\* a handler of a lost connection runs; 'close' follows 'error'
HandlerRuns ==
    \E e \in brokerNet.due :
        /\ IF e[2] = "error"
           THEN /\ amqp' = IF adapter.side = "worker" THEN OnErrorWorker(amqp)
                                                      ELSE OnErrorIngestion(amqp)
                /\ brokerNet' = [brokerNet EXCEPT !.due = (@ \ {e}) \cup {<<e[1], "close">>}]
           ELSE /\ amqp' = OnClose(amqp)
                /\ brokerNet' = [brokerNet EXCEPT !.due = @ \ {e}]
        /\ UNCHANGED <<adapter, connecting, published, ready, unacked, workBatch, execs,
                       queueProcessed, lastOp>>
        /\ UNCHANGED <<bufVars, sdkVars, workerVars, besideBroker>>

\* the adapter as its constructor leaves it: a RabbitMQ adapter has called
\* connect() without awaiting it
InitBroker ==
    /\ BufIdle /\ SdkIdle /\ WorkerIdle /\ SamplerIdle /\ CaptureIdle /\ IngestIdle
    /\ MetricsIdle /\ LifeIdle /\ QueryIdle
    /\ adapter \in Adapters
    /\ amqp = [connection |-> 0, channel |-> 0, isConnecting |-> adapter.kind = "rabbitmq"]
    /\ connecting = IF adapter.kind = "rabbitmq" THEN "constructor" ELSE "none"
    /\ brokerNet \in {[up |-> u, open |-> {}, due |-> {}, losses |-> 0] : u \in BOOLEAN}
    /\ published = <<>>
    /\ ready = <<>>
    /\ unacked = {}
    /\ workBatch = <<>>
    /\ execs = <<>>
    /\ queueProcessed = {}
    /\ lastOp = "none"

NextBroker ==
    \/ Publish
    \/ BrokerPoll
    \/ BrokerPush
    \/ ConnectSettles
    \/ BrokerProcess
    \/ ConnectionLost
    \/ BrokerBack
    \/ HandlerRuns

SpecBroker == InitBroker /\ [][NextBroker]_vars

\* the polling loop keeps polling and processing, requests keep pushing,
\* awaited calls settle and emitted events reach their handlers
SpecBrokerFair ==
    /\ SpecBroker
    /\ WF_vars(BrokerPoll)
    /\ WF_vars(BrokerPush)
    /\ WF_vars(BrokerProcess)
    /\ WF_vars(ConnectSettles)
    /\ WF_vars(HandlerRuns)

\* ---- claims on the worker (SpecWorker)

\* the distinct decision events the worker has tracked for a step
TrackedOnce(stepId) == Range(EventsOf(stepDecisionEvents, stepId))

\* C3: however many times the same DecisionEvent was processed, the state is
\* that of processing it once: one blob under its key, one decision-event
\* row, and keptCount / eliminatedCount / scoredCount of the step's metrics
\* equal to the counts over the distinct events.
C3_ReplayIsIdempotent ==
    \A sid \in DOMAIN stepDecisionEvents :
        /\ \A e \in TrackedOnce(sid) :
            /\ Cardinality({k \in DOMAIN blobs :
                              k[1] = "decisions" /\ k[3] = e.id}) = 1
            /\ Cardinality({k \in DOMAIN eventRows :
                              eventRows[k].event_id = e.id}) = 1
        /\ \A o \in Range(Outcomes) :
            CountOutcome(EventsOf(stepDecisionEvents, sid), o)
                = Cardinality({e \in TrackedOnce(sid) : e.outcome = o})

\* message m was given to the queue exactly once
EnqueuedOnce(m) ==
    Cardinality({n \in 1..Len(enqueued) :
                    enqueued[n].type = m.type /\ enqueued[n].data = m.data}) = 1

\* the terminal Run, the completed Step and the step's M events have each
\* arrived once, in some order, and all of them have been processed
AllProcessedOnce(hasRunId) ==
    /\ Len(enqueued) = MaxStepEvents + 2
    /\ EnqueuedOnce(RunEndedMsg)
    /\ EnqueuedOnce(StepEndedMsg(hasRunId))
    /\ \A i \in 1..MaxStepEvents : EnqueuedOnce(DecisionMsg(i))
    /\ processedIds = 1..Len(enqueued)

\* C4: for every arrival order of one terminal Run, one completed Step of
\* it and the step's M DecisionEvents, once all are processed GET /runs/:id
\* reports totalSteps = 1, totals and step metrics derived from the M events.
C4_AnyOrderSameRunDetail ==
    \A hasRunId \in BOOLEAN :
        AllProcessedOnce(hasRunId)
            => LET expected == CalculateStepMetrics(StepEndedMsg(hasRunId).data,
                                                    RunEndedMsg.data, StepEvents)
                   got == GetRun(RunEndedMsg.data.id)
               IN /\ got.found
                  /\ got.metrics.totalSteps = 1
                  /\ got.metrics.totalInputCount = expected.inputCount
                  /\ got.metrics.totalOutputCount = expected.outputCount
                  /\ got.steps = {expected}

\* C5: a message whose processing raised is not acknowledged and is still
\* held for a later poll, so no polled message is lost because it failed.
C5_FailedMessageKeptForRedelivery ==
    \A n \in failedIds :
        /\ n \notin processedIds
        /\ \E i \in 1..Len(queue) : queue[i].messageId = n

\* ---- claims on the buffer (SpecBuffer)

BufferIds == {e.id : e \in Range(buffer)}

\* C6: in every reachable state the number of buffered events is at most the
\* maxSize the buffer was configured with.
C6_BufferWithinConfiguredMaxSize == Len(buffer) <= cfgMaxSize

\* the events an add leaves behind: the buffer, or the batch it dispatched
KeptByStep == IF dispatches' = dispatches THEN buffer'
              ELSE (CHOOSE d \in dispatches' \ dispatches : TRUE).batch

\* C7: add(e) on a buffer holding exactly maxSize events discards exactly the
\* oldest event and retains all the others, followed by e, in their order.
C7_AddAtMaxSizeDropsOldest ==
    [][(nextId' = nextId + 1 /\ Len(buffer) = cfgMaxSize)
        => /\ dropped' = dropped \cup {Head(buffer).id}
           /\ KeptByStep = Append(Tail(buffer), PlainEvent(nextId))]_vars

\* C8: when forceFlush() has resolved, every event added before the call
\* (and not discarded by drop-oldest) has been handed to the flush callback,
\* none of them is in the buffer, and the periodic timer is cancelled.
C8_ForceFlushDrains ==
    ff.state = "resolved"
        => /\ (ff.before \ dropped) \subseteq handed
           /\ ff.before \cap BufferIds = {}
           /\ ~flushTimer

\* C9: flush() has not resolved while a flush-callback invocation that was in
\* progress when it was called, or that it started, is still pending.
C9_FlushWaitsForPendingDispatch ==
    ff.state = "resolved" => \A d \in dispatches : d.batch \notin ff.pending

\* C10: at most one invocation of the flush callback is in progress at any
\* time; a trigger arriving during a running flush starts no second dispatch.
C10_OneFlushInProgress == Cardinality(dispatches) <= 1

\* a flush is running and an add that reached the batch size has returned
C10_Witness ==
    /\ Cardinality(dispatches) = 1
    /\ isFlushing
    /\ Len(buffer) >= DefaultBatchSize

\* C11: when the flush callback fails, none of the events of its batch is
\* put back into the buffer, flush() returns without raising, and the
\* flush-in-progress guard is released, so that the next trigger on a
\* non-empty buffer dispatches again.
C11_FailedFlushDropsBatchAndReleases ==
    [][/\ (dispatches' # dispatches /\ dispatches' \subseteq dispatches
            /\ lastSettle'.callback = "rejected")
          => /\ buffer' = buffer
             /\ lastSettle'.flush = "ok"
             /\ ~isFlushing'
       /\ (lastSettle.callback = "rejected" /\ dispatches = {} /\ buffer # <<>>
            /\ (TimerFlush \/ ForceFlush))
          => /\ Cardinality(dispatches') = 1
             /\ buffer' = <<>>]_vars

\* after a failed flush a later trigger has dispatched the next batch
C11_Witness ==
    /\ lastSettle.callback = "rejected"
    /\ Cardinality(dispatches) = 1
    /\ handed # {e.id : e \in UNION {Range(d.batch) : d \in dispatches}}

\* C12: whenever an add leaves the buffer with at least the configured
\* batchSize events and no flush is in progress, that add starts a flush.
C12_AddAtConfiguredBatchSizeFlushes ==
    [][(nextId' = nextId + 1 /\ ~isFlushing /\ Len(KeptByStep) >= cfgBatchSize)
        => dispatches' # dispatches]_vars

\* ---- claims on the transport (SpecTransport)

\* C13: whatever the pattern of network errors and non-2xx answers, a single
\* send makes at most maxRetries HTTP attempts and then stops.
C13_AtMostMaxRetriesAttempts == lastSend.attempts <= MaxRetries

\* ---- claims on the facade (SpecSdk)

\* C1: whatever the transport and the ingestion endpoint do, startRun,
\* endRun and flush complete without raising, step raises only when the
\* step function fn itself raised, and whenever fn returned normally step
\* returns fn's result.
C1_OnlyFnErrorsReachCaller ==
    /\ raisedBy = {}
    /\ lastCall.op = "step"
        => /\ lastCall.result = "raised" => lastCall.fn.kind = "raise"
           /\ lastCall.fn.kind = "return"
                => lastCall.result = "ok" /\ lastCall.value = lastCall.fn

RunMsgsOf(id) == {m \in sent : m.type = "run" /\ m.data.id = id}
EndedMsgsOf(id) == {m \in RunMsgsOf(id) : m.data.status \in {"completed", "failed"}}

\* C14: a run's status only moves from running to completed or to failed;
\* once endRun has ended a run, any further endRun call for that runId
\* changes nothing and sends no Run message.
C14_TerminalRunIsAbsorbing ==
    /\ [](/\ \A r \in activeRuns : r.status = "running" /\ EndedMsgsOf(r.id) = {}
          /\ \A id \in 1..MaxRuns :
                /\ Cardinality(EndedMsgsOf(id)) <= 1
                /\ Cardinality(RunMsgsOf(id) \ EndedMsgsOf(id)) <= 1
                /\ \A m \in RunMsgsOf(id) : m.data.status \in {"running", "completed", "failed"})
    /\ [][\A id \in 1..MaxRuns :
            (CallsOf(id)' > CallsOf(id) /\ EndedMsgsOf(id) # {})
                => sent' = sent /\ activeRuns' = activeRuns]_vars

\* endRun has been called again for a run that had already ended
C14_Witness ==
    \E id \in 1..MaxRuns :
        /\ CallsOf(id) = MaxEndCalls
        /\ Cardinality(EndedMsgsOf(id)) = 1
        /\ \A r \in activeRuns : r.id # id

\* ---- claims on the sampler (SpecSampler)

\* the walk has asked about every index
WalkDone == sampleIndex = sampleN
Max(a, b) == IF a >= b THEN a ELSE b
\* ceil(a / b) for b > 0
CeilDiv(a, b) == (a + b - 1) \div b

\* C18: of the indices of a batch of n items, shouldSample selects at most
\* max(k, 2) when n > k, and all n of them when n <= k.
C18_SampleSizeBounded ==
    WalkDone =>
        IF sampleN > sampleK THEN Cardinality(picked) <= Max(sampleK, 2)
        ELSE Cardinality(picked) = sampleN

\* C19: when n > k and k >= 3, consecutive selected indices (the boundaries
\* 0 and n-1 included) are at most ceil(n / (k-2)) apart.
C19_SelectedIndicesEvenlySpaced ==
    (WalkDone /\ sampleN > sampleK /\ sampleK >= 3) =>
        \A a \in picked, b \in picked :
            (a < b /\ \A m \in picked : ~(a < m /\ m < b))
                => b - a <= CeilDiv(sampleN, sampleK - 2)

\* C20: for every n > 0 and k >= 2 the first index 0 and the last index n-1
\* are selected.
C20_BoundariesAlwaysSampled ==
    /\ sampleIndex > 0 => 0 \in picked
    /\ WalkDone => (sampleN - 1) \in picked

\* a finished walk over a batch larger than the target that left an interior
\* index out, and still holds both boundaries
C20_Witness ==
    /\ WalkDone /\ sampleN > sampleK
    /\ \E i \in 1..(sampleN - 2) : i \notin picked
    /\ {0, sampleN - 1} \subseteq picked

\* ---- claims on the capture of one step (SpecCapture)

\* the worker has processed every message the followed step gave rise to
AllDelivered ==
    /\ capIn.level # "none" /\ capIn.captured
    /\ {"run", "step"} \subseteq delivered
    /\ emitted # <<>> => "decisions" \in delivered

\* the metrics rows of the followed step
RowsOfStep == {stepRows[k] : k \in {x \in DOMAIN stepRows : x[1] = "s1"}}

\* C15: under metrics_only no event is emitted, yet the step's inputCount and
\* outputCount reach the processor and the step's metrics row carries them.
C15_MetricsOnlyRowCarriesCounts ==
    (AllDelivered /\ capIn.level = "metrics_only") =>
        /\ emitted = <<>>
        /\ \E row \in RowsOfStep :
              /\ row.inputCount = capIn.n
              /\ row.outputCount = Len(StepOutput(capIn))

\* C16: under full capture without a decisionCallback, a step over sequences
\* emits one event per input element; the event is eliminated exactly when
\* the element is not in the output, else scored for rank and score steps
\* and kept for the other types.
C16_FullCaptureOneEventPerElement ==
    (capIn.level = "full" /\ capIn.captured) =>
        /\ Len(emitted) = capIn.n
        /\ \A i \in 1..Len(emitted) :
              /\ emitted[i].itemId = i
              /\ emitted[i].outcome =
                    IF i \notin capIn.keep THEN "eliminated"
                    ELSE IF capIn.type \in {"rank", "score"} THEN "scored"
                    ELSE "kept"

\* C17: every metrics row of a filter step has
\* inputCount - outputCount = eliminatedCount, at every capture level and
\* input size.
C17_FilterRowCountsBalance ==
    \A row \in RowsOfStep :
        row.stepType = "filter" =>
            row.inputCount - row.outputCount = row.eliminatedCount

\* ---- claims on the ingestion API (SpecIngest)

\* the elements of the last request's data that pass their schema
ValidItems ==
    {i \in 1..Len(lastRequest.data.items) : lastRequest.data.items[i].wellFormed}
\* the last request was a batch holding a valid element
BatchWithValid ==
    /\ lastRequest.type = "decisions"
    /\ lastRequest.data.present /\ lastRequest.data.array
    /\ ValidItems # {}
\* the entries the last request added to the queue
Enqueued == Len(ingested) - lastRequest.before

\* C21: a decisions batch with a valid element is answered 200 with total =
\* the number of elements submitted, queued = the number enqueued, and
\* partial exactly when queued < total.
C21_BatchReportsSubmittedTotal ==
    BatchWithValid =>
        /\ lastResponse.status = 200
        /\ lastResponse.total = Len(lastRequest.data.items)
        /\ lastResponse.queued = Enqueued
        /\ lastResponse.partial = (lastResponse.queued < lastResponse.total)

\* the last request passed validation and a push of it raised
EnqueueFailed ==
    /\ lastRequest.type \in {"decision", "decisions", "run", "step"}
    /\ lastRequest.data.present
    /\ lastRequest.data.array = (lastRequest.type = "decisions")
    /\ ValidItems # {}
    /\ \A i \in ValidItems :
          lastRequest.data.items[i].kind =
             (IF lastRequest.type = "decisions" THEN "decision" ELSE lastRequest.type)
    /\ lastRequest.failAt \in 1..Cardinality(ValidItems)

\* C22: for every envelope type, a validated payload whose enqueue fails is
\* answered 500, never with a success status.
C22_EnqueueFailureIs500 ==
    EnqueueFailed => lastResponse.status = 500

\* C23: a run, step or decision payload holding a field that is not in its
\* schema is answered 400 and is not enqueued.
C23_UnknownFieldRejected ==
    (/\ lastRequest.type \in {"decision", "run", "step"}
     /\ lastRequest.data.present /\ ~lastRequest.data.array
     /\ lastRequest.data.items[1].kind = lastRequest.type
     /\ lastRequest.data.items[1].extra)
        => lastResponse.status = 400 /\ Enqueued = 0

\* ---- claims on the stores behind the followed step (SpecCapture)

\* the event ids the decision_events table shows after its merge
StoredEventIds == {eventRows[k].event_id : k \in DOMAIN eventRows}

\* C24: decision events with different ids stay distinct rows of the
\* analytical store, also when their runId, stepId and timestamp are equal.
C24_EventsWithDistinctIdsKeepRows ==
    "decisions" \in delivered =>
        \A i \in 1..Len(emitted) : emitted[i].id \in StoredEventIds

\* ---- claims on the worker's two stores (SpecWorker)

\* C25: in every state, store failures and redeliveries included, each
\* decision-event row of the analytical store has its blob stored under
\* decisions/<date of the event's timestamp>/<eventId>.
C25_EventRowHasItsBlob ==
    \A k \in DOMAIN eventRows :
        LET key == ObjectKey("decisions", k[3], eventRows[k].event_id)
        IN /\ eventRows[k].s3_key = key
           /\ key \in DOMAIN blobs
           /\ blobs[key].id = eventRows[k].event_id

\* an event row stored although the processing of a message has failed
\* on a store and a decision message was delivered twice
C25_Witness ==
    /\ DOMAIN eventRows # {}
    /\ failedIds # {}
    /\ \E i \in 1..Len(enqueued), j \in 1..Len(enqueued) :
          i < j /\ enqueued[i] = enqueued[j] /\ enqueued[i].type = "decision"
                /\ {i, j} \subseteq processedIds \cup failedIds

\* ---- claims on the stored elimination ratios (SpecMetrics)

\* the ratio (num, den) is 1 - out/max(in, 1) clamped to [0, 1] where in > 0,
\* and is 0 where in = 0
IsClampedRatio(ratio, in, out) ==
    LET den == Max(in, 1)
        clamped == IF in = 0 THEN 0 ELSE Min(Max(den - out, 0), den)
    IN /\ ratio[2] > 0
       /\ ratio[1] * den = clamped * ratio[2]

\* C26: every step and run elimination ratio is 1 - outputCount /
\* max(inputCount, 1) clamped to [0, 1]: never below 0, also when
\* outputCount exceeds inputCount, never above 1, and 0 when inputCount is 0.
C26_EliminationRatioClamped ==
    metricsOut.done =>
        /\ IsClampedRatio(metricsOut.step.eliminationRatio,
                          metricsOut.step.inputCount, metricsOut.step.outputCount)
        /\ IsClampedRatio(metricsOut.run.overallEliminationRatio,
                          metricsOut.run.totalInputCount,
                          metricsOut.run.totalOutputCount)

\* ---- claims on the worker's poll loop and shutdown (SpecLifecycle)

\* C27: on a shutdown signal the in-flight batch has finished before the
\* handle of the analytical store is closed and before the process exits.
C27_ShutdownWaitsForBatch ==
    /\ shutdown.phase # "none" => shutdown.inFlightAtClose = 0
    /\ Exited => inFlight = 0

\* C29: at most one processBatch is in flight at any time, whatever the
\* sequence of start() and stop() calls.
C29_OneBatchInFlight == inFlight <= 1

\* ---- claims on the query API (SpecQuery)

\* the id the last request names is in the table its route looks it up in
Exists ==
    CASE lastQuery.route = "run" -> lastQuery.id \in queryStore.runs
      [] lastQuery.route = "step" -> lastQuery.id \in queryStore.steps
      [] OTHER -> TRUE

\* C28: a request during which a query of the analytical store fails is
\* answered 500, and 404 is answered only when the run or step does not exist.
C28_StoreFailureIs500 ==
    lastQuery.route # "none" =>
        /\ "first" \in lastQuery.fails => queryResponse.status = 500
        /\ queryResponse.status = 404 => ~Exists

\* ---- claims on the worker's step metrics (SpecWorker)

\* the step-metrics rows stored for a step
StepRowsOf(stepId) == {k \in DOMAIN stepRows : k[1] = stepId}

\* C30: once the worker has processed a Step message with completedAt set,
\* the analytical store holds a step-metrics row of that step, attributed to
\* exactly one run, whether or not the run's Run message was processed before.
C30_CompletedStepGetsRow ==
    \A i \in processedIds :
        (enqueued[i].type = "step" /\ enqueued[i].data.completed) =>
            Cardinality(StepRowsOf(enqueued[i].data.id)) = 1

\* ---- claims on the counts of a step row (SpecMetrics)

Recorded(v) == v # Absent /\ v # 0

C36_QueuedCountsEnqueued ==
    (lastRequest.type = "decisions" /\ lastResponse.status = 200) =>
        lastResponse.queued = Enqueued

\* ---- claims on the delivery of buffered events (SpecBufferFair)

\* the event is waiting in the buffer
Buffered(id) == \E i \in 1..Len(buffer) : buffer[i].id = id

\* C37: every event accepted by add is eventually handed to the flush
\* callback unless the drop-oldest rule discards it, also when it was added
\* during a flush or after forceFlush was called.
C37_BufferedEventuallyHanded ==
    \A id \in 1..MaxEvents : Buffered(id) ~> (id \in handed \cup dropped)

\* ---- claims on the run a step belongs to (SpecSdk)

\* the decision events the facade has emitted and the buffer still holds or
\* has handed to a flush that is pending
EventsEmitted == Range(buffer) \cup UNION {Range(d.batch) : d \in dispatches}

\* C38: every Step message and every DecisionEvent the facade emits carries
\* a runId that startRun returned; step() with a runId that startRun never
\* returned emits nothing.
C38_StepsCarryKnownRun ==
    /\ \A m \in sent :
          m.type = "step" => ("runId" \in DOMAIN m.data /\ m.data.runId \in RunsStarted)
    /\ \A e \in EventsEmitted : e.runId \in RunsStarted

\* ---- claims on the order of Run messages (SpecWorker)

\* the worker has processed the terminal Run message of r1
TerminalRunProcessed ==
    \E i \in processedIds : enqueued[i].type = "run" /\ enqueued[i].data.completed

\* C39: once the worker has processed a terminal Run message of a run, a
\* non-terminal Run message of that run arriving later replaces neither the
\* cached run nor the stored run blob.
C39_TerminalRunIsKept ==
    TerminalRunProcessed =>
        LET key == ObjectKey("runs", RunEndedMsg.data.startedAt, "r1")
        IN /\ runCache["r1"].status \in {"completed", "failed"}
           /\ blobs[key].status \in {"completed", "failed"}

\* ---- claims on the pipeline of an event row (SpecWorker)

\* C40: every decision-event row carries the pipelineId of the run its
\* event belongs to, in whatever order the event and the Run message are
\* processed.
C40_EventRowHasRunPipeline ==
    \A k \in DOMAIN eventRows : eventRows[k].pipeline_id = RunStartedMsg.data.pipelineId

\* ---- claims on a failing message of a batch (SpecWorker)

MessageIds(msgs) == {msgs[i].messageId : i \in 1..Len(msgs)}

Outstanding == {ready[i] : i \in 1..Len(ready)} \cup {u.pub : u \in unacked}

\* C31: a message whose messageId has already been processed successfully is
\* skipped when it is delivered again: processMessage runs to its end at
\* most once for any messageId.
C31_ProcessedIdIsSkipped ==
    \A p, q \in 1..Len(published) :
        /\ execs[p] <= 1
        /\ (p # q /\ published[p] = published[q]) => ~(execs[p] > 0 /\ execs[q] > 0)

\* C32: once a message has been processed successfully the broker does not
\* hold it any more, with every adapter, and it is not processed a second
\* time.
C32_ProcessedIsAcknowledged ==
    \A p \in 1..Len(published) :
        execs[p] > 0 => (p \notin Outstanding /\ execs[p] <= 1)


\* the RabbitMQ adapter holds a channel and the channel's connection is open
Connected == amqp.channel # 0 /\ amqp.channel \in brokerNet.open

====
